---- MODULE Spec2Model ----
(***************************************************************************)
(* Model of the markdown formatter of gdrive-cli (src/src/list.ts, lines   *)
(* 230-496): parseInlineFormatting, parseLine and markdownToDocsRequests.  *)
(*                                                                         *)
(* A JavaScript string is a sequence of one-character strings.  Sequences  *)
(* are 1-based, so the character at 0-based position k of the inserted     *)
(* body is element k+1 of the sequence: the element number of a body       *)
(* character is its Google Docs index when the body is inserted at 1.      *)
(***************************************************************************)
EXTENDS Integers, Sequences, FiniteSets, TLC

VARIABLES markdown, pc, parsedLines, fullText, linePositions, requests

\* updateDoc: the body of the document on the service, the arguments, the
\* locals, the position in the function and the batches sent so far
VARIABLES body, updateContent, optionsMarkdown, endIndex, updatePc, batchUpdates

\* cli.ts main: the arguments after the script name, the position in main,
\* the handler that was called, whether the help was printed, what was
\* written to stderr and the exit code of the process
VARIABLES argv, cliPc, calledHandler, helpShown, stderr, exitCode

\* auth.ts: the module variable oauth2Client (0 for null, else the number of
\* the client object), the credentials set on each client object, the state
\* of token.json, the number of client objects constructed, of token
\* refreshes and of consent flows started, and for each caller of getAuth
\* its position, the client it received and the credentials that client
\* held at that moment
VARIABLES oauth2Client, clientCredentials, tokenFile, constructed, refreshes,
          consentFlows, authPc, received, credentialsAtReturn

\* revisions main, diff mode: the text of the two revisions on the service,
\* the position of main, the position of each getRevisionContent call, the
\* result array of Promise.all, the order in which the calls settled, and
\* what was printed
VARIABLES revisionText, diffPc, fetchPc, contents, settledOrder, printedKind, printedDiff

\* resolveComment: the comment on the service (resolved flag and content),
\* whether the user may resolve it, the position in the function, the
\* response of the first read, the calls made to the service, and the
\* value returned
VARIABLES commentResolved, commentContent, mayResolve, resolvePc, existing,
          driveCalls, resolveResult

\* createDocInPath: the folders on the drive (each the sequence of names
\* from the root, which is also its id), the arguments, the position, the
\* locals of findFolderByPath (the names still to look up and
\* currentFolderId), the files.list queries made, the calls that create,
\* move or write the document, and the error thrown
VARIABLES folders, folderPath, createOptions, createPc, parts, currentFolderId,
          listQueries, documentCalls, createError

mvars == <<markdown, pc, parsedLines, fullText, linePositions, requests>>
uvars == <<body, updateContent, optionsMarkdown, endIndex, updatePc, batchUpdates>>
cvars == <<argv, cliPc, calledHandler, helpShown, stderr, exitCode>>
avars == <<oauth2Client, clientCredentials, tokenFile, constructed, refreshes,
           consentFlows, authPc, received, credentialsAtReturn>>
dvars == <<revisionText, diffPc, fetchPc, contents, settledOrder, printedKind, printedDiff>>
rvars == <<commentResolved, commentContent, mayResolve, resolvePc, existing,
           driveCalls, resolveResult>>
fvars == <<folders, folderPath, createOptions, createPc, parts, currentFolderId,
           listQueries, documentCalls, createError>>
vars == <<mvars, uvars, cvars, avars, dvars, rvars, fvars>>

\* the variables an action of one part leaves alone
notMarkdown == <<uvars, cvars, avars, dvars, rvars, fvars>>
notUpdate == <<mvars, cvars, avars, dvars, rvars, fvars>>
notCli == <<mvars, uvars, avars, dvars, rvars, fvars>>
notAuth == <<mvars, uvars, cvars, dvars, rvars, fvars>>
notDiff == <<mvars, uvars, cvars, avars, rvars, fvars>>
notResolve == <<mvars, uvars, cvars, avars, dvars, fvars>>
notCreate == <<mvars, uvars, cvars, avars, dvars, rvars>>

\* no call of markdownToDocsRequests
MarkdownIdle ==
  /\ markdown = <<>>
  /\ pc = "idle"
  /\ parsedLines = <<>>
  /\ fullText = <<>>
  /\ linePositions = <<>>
  /\ requests = <<>>

\* no call of updateDoc
UpdateIdle ==
  /\ body = <<"\n">>
  /\ updateContent = <<>>
  /\ optionsMarkdown = FALSE
  /\ endIndex = 0
  /\ updatePc = "idle"
  /\ batchUpdates = <<>>

\* the process not started
CliIdle ==
  /\ argv = <<>>
  /\ cliPc = "idle"
  /\ calledHandler = "none"
  /\ helpShown = FALSE
  /\ stderr = "none"
  /\ exitCode = -1

\* getAuth never called
AuthIdle ==
  /\ oauth2Client = 0
  /\ clientCredentials = <<>>
  /\ tokenFile = "none"
  /\ constructed = 0
  /\ refreshes = 0
  /\ consentFlows = 0
  /\ authPc = <<>>
  /\ received = <<>>
  /\ credentialsAtReturn = <<>>

\* the revision diff not started
DiffIdle ==
  /\ revisionText = <<>>
  /\ diffPc = "idle"
  /\ fetchPc = <<>>
  /\ contents = <<>>
  /\ settledOrder = <<>>
  /\ printedKind = "none"
  /\ printedDiff = <<>>

\* resolveComment not called
ResolveIdle ==
  /\ commentResolved = FALSE
  /\ commentContent = ""
  /\ mayResolve = FALSE
  /\ resolvePc = "idle"
  /\ existing = [resolved |-> "undefined", content |-> "undefined"]
  /\ driveCalls = <<>>
  /\ resolveResult = "none"

\* createDocInPath not called
CreateIdle ==
  /\ folders = {}
  /\ folderPath = <<>>
  /\ createOptions = [content |-> <<>>, folderId |-> <<>>, markdown |-> FALSE]
  /\ createPc = "idle"
  /\ parts = <<>>
  /\ currentFolderId = <<>>
  /\ listQueries = <<>>
  /\ documentCalls = <<>>
  /\ createError = "none"

IdleExceptMarkdown == UpdateIdle /\ CliIdle /\ AuthIdle /\ DiffIdle /\ ResolveIdle /\ CreateIdle
IdleExceptUpdate == MarkdownIdle /\ CliIdle /\ AuthIdle /\ DiffIdle /\ ResolveIdle /\ CreateIdle
IdleExceptCli == MarkdownIdle /\ UpdateIdle /\ AuthIdle /\ DiffIdle /\ ResolveIdle /\ CreateIdle
IdleExceptAuth == MarkdownIdle /\ UpdateIdle /\ CliIdle /\ DiffIdle /\ ResolveIdle /\ CreateIdle
IdleExceptDiff == MarkdownIdle /\ UpdateIdle /\ CliIdle /\ AuthIdle /\ ResolveIdle /\ CreateIdle
IdleExceptResolve == MarkdownIdle /\ UpdateIdle /\ CliIdle /\ AuthIdle /\ DiffIdle /\ CreateIdle
IdleExceptCreate == MarkdownIdle /\ UpdateIdle /\ CliIdle /\ AuthIdle /\ DiffIdle /\ ResolveIdle

(***************************************************************************)
(* Bounds and input alphabets.                                             *)
(***************************************************************************)
\* every text of at most MaxLen characters of Alphabet
MaxLen == 4
\* every text of at most MaxInlineLen characters of InlineAlphabet
MaxInlineLen == 7
\* every document of at most MaxLines lines of SampleLines
MaxLines == 2
\* every document body of at most MaxBody characters of BodyAlphabet before its
\* final newline
MaxBody == 2
\* every new content of at most MaxContent characters of Alphabet
MaxContent == 2
\* the number of concurrent callers of getAuth
NumCallers == 3
\* every revision text of at most MaxRevision characters of RevisionAlphabet
MaxRevision == 2
\* every folder path of at most MaxPath characters of PathAlphabet
MaxPath == 3

Alphabet == {"#", " ", "*", "-", "1", ".", "a", "\n"}
InlineAlphabet == {"*", "a", "\r"}
BodyAlphabet == {"b", "\n"}
PathAlphabet == {"/", "a", "b"}
RevisionAlphabet == {"a", "b", " ", "\n"}

SampleLines ==
  { <<>>,
    <<" ">>,
    <<"a">>,
    <<"#", " ", "a">>,
    <<"#", "#", " ", "a">>,
    <<"#", "#", "#", " ", "a">>,
    <<"-", " ", "a">>,
    <<"*", " ", "a">>,
    <<"1", ".", " ", "a">>,
    <<"#", " ">>,
    <<"-", " ">>,
    <<"#">>,
    <<"*", "*", "a", "*", "*">>,
    <<"*", "a", "*">>,
    <<"-", " ", "*", "a", "*">>,
    <<"#", " ", "*", "*", "a", "*", "*", " ", "a">>,
    <<"a", " ", "*", "*", "a", "*", "*">>,
    <<"1", "1", ".", " ", " ", "a">> }

\* the scenarios of the specification and further lines the properties name
TitleHelloWorld == <<"#", " ", "T", "i", "t", "l", "e", "\n", "\n", "H", "e", "l", "l", "o", " ", "*", "*", "w", "o", "r", "l", "d", "*", "*">>
OneTwo == <<"-", " ", "o", "n", "e", "\n", "-", " ", "t", "w", "o">>
BoldThenItalic == <<"*", "*", "a", "*", "*", "*", "b", "*">>
HeadingOfBullet == <<"#", " ", "-", " ", "x">>
BulletOfHeading == <<"-", " ", "#", " ", "x">>
Scenarios ==
  { TitleHelloWorld, OneTwo, BoldThenItalic,
    <<"#", "#", "a">>,
    <<"#", "#", "#", "#", " ", " ", "a">>,
    <<" ", "#", " ", "a">>,
    <<" ", "-", " ", "a">>,
    <<"-", "\t", "a">>,
    <<"1", ".", "a">>,
    HeadingOfBullet,
    BulletOfHeading,
    <<"\n", "a", "\n", " ", "\n", "\n", "#", " ", "a", "\n">>,
    <<"#", " ", "*", "*", "a", "b", "*", "*", "\n", "*", "*", "a", "*", "*", "*", "b", "*">> }

Strs(A, n) == UNION {[1..k -> A] : k \in 0..n}

Min(S) == CHOOSE x \in S : \A y \in S : x <= y
Max(S) == CHOOSE x \in S : \A y \in S : x >= y

(***************************************************************************)
(* JavaScript character classes.                                           *)
(***************************************************************************)
\* \s of a regular expression and the characters String.prototype.trim strips
WhiteSpace == {" ", "\t", "\r", "\n", "\f"}
\* \d
Digits == {"0", "1", "2", "3", "4", "5", "6", "7", "8", "9"}
\* the characters `.` does not match (no s flag)
LineTerminators == {"\n", "\r"}

Dot(c) == c \notin LineTerminators

Slice(s, from) == SubSeq(s, from, Len(s))

\* String.prototype.trim
trim(s) ==
  LET keep == {i \in 1..Len(s) : s[i] \notin WhiteSpace}
  IN IF keep = {} THEN <<>> ELSE SubSeq(s, Min(keep), Max(keep))

\* String.prototype.startsWith
startsWith(s, p) == Len(s) >= Len(p) /\ SubSeq(s, 1, Len(p)) = p

\* String.prototype.split('\n')
RECURSIVE split(_)
split(s) ==
  LET nl == {i \in 1..Len(s) : s[i] = "\n"}
  IN IF nl = {} THEN <<s>>
     ELSE <<SubSeq(s, 1, Min(nl) - 1)>> \o split(Slice(s, Min(nl) + 1))

(***************************************************************************)
(* parseInlineFormatting.  Its pattern has two alternatives: two           *)
(* asterisks, a lazy group of one or more `.` characters, two asterisks    *)
(* (bold); or one asterisk, such a group, one asterisk (italic).           *)
(* Positions are 1-based: position i here is JavaScript index i-1.         *)
(***************************************************************************)
\* The bold alternative tried at position i: the positions where the closing
\* pair of asterisks can stand, the group between being one or more `.`
\* characters
boldCloses(text, i) ==
  IF i + 1 <= Len(text) /\ text[i] = "*" /\ text[i + 1] = "*"
  THEN {j \in (i + 3)..(Len(text) - 1) :
          /\ text[j] = "*" /\ text[j + 1] = "*"
          /\ \A k \in (i + 2)..(j - 1) : Dot(text[k])}
  ELSE {}

\* The italic alternative tried at position i: the positions where the
\* closing asterisk can stand
italicCloses(text, i) ==
  IF text[i] = "*"
  THEN {j \in (i + 2)..Len(text) :
          /\ text[j] = "*"
          /\ \A k \in (i + 1)..(j - 1) : Dot(text[k])}
  ELSE {}

\* the result of a failed exec
null == [index |-> 0, length |-> 0, g2 |-> <<>>, g3 |-> <<>>]

\* the match of the bold alternative at i whose closing pair stands at j
boldMatch(text, i, j) ==
  [index |-> i, length |-> j + 2 - i, g2 |-> SubSeq(text, i + 2, j - 1), g3 |-> <<>>]

\* the match of the italic alternative at i whose closing asterisk stands at j
italicMatch(text, i, j) ==
  [index |-> i, length |-> j + 1 - i, g2 |-> <<>>, g3 |-> SubSeq(text, i + 1, j - 1)]

\* the alternation with the italic alternative tried before the bold one
alternationItalicFirst(text, i, bolds, italics) ==
  IF italics # {} THEN italicMatch(text, i, Min(italics))
  ELSE IF bolds # {} THEN boldMatch(text, i, Min(bolds))
  ELSE null

\* the alternation with an opening asterisk that is never closed matching to
\* the end of the text
alternationUnterminated(text, i, bolds, italics) ==
  IF bolds # {} THEN boldMatch(text, i, Min(bolds))
  ELSE IF italics # {} THEN italicMatch(text, i, Min(italics))
  ELSE IF text[i] = "*" /\ i < Len(text)
  THEN [index |-> i, length |-> Len(text) + 1 - i,
        g2 |-> <<>>, g3 |-> SubSeq(text, i + 1, Len(text))]
  ELSE null

\* The alternation at position i, given the closing positions of the two
\* alternatives: the bold alternative is tried first; +? is lazy, so the
\* nearest closing marker is taken. g2 and g3 are the capture groups match[2]
\* and match[3]; the empty sequence stands for undefined (a group that took
\* part is never empty).
alternation(text, i, bolds, italics) ==
  IF bolds # {} THEN boldMatch(text, i, Min(bolds))
  ELSE IF italics # {} THEN italicMatch(text, i, Min(italics))
  ELSE null

\* the match of the pattern that starts at position i, or null
matchAt(text, i) ==
  alternation(text, i, boldCloses(text, i), italicCloses(text, i))

\* the leftmost of a set of matches, null when there is none
leftmost(found) ==
  IF found = {} THEN null
  ELSE CHOOSE m \in found : \A n \in found : m.index <= n.index

\* pattern.exec(text) with pattern.lastIndex = lastIndex: the leftmost match
\* that starts at lastIndex or later
exec(text, lastIndex) ==
  leftmost({matchAt(text, i) : i \in lastIndex..Len(text)} \ {null})

plainSegment(t) == [text |-> t, bold |-> FALSE, italic |-> FALSE]
boldSegment(t) == [text |-> t, bold |-> TRUE, italic |-> FALSE]
italicSegment(t) == [text |-> t, bold |-> FALSE, italic |-> TRUE]

\* pushMatch with a bold match also tagged italic
pushMatchBoldIsItalic(text, lastIndex, segments, match) ==
  segments
    \o (IF match.index > lastIndex
        THEN <<plainSegment(SubSeq(text, lastIndex, match.index - 1))>>
        ELSE <<>>)
    \o (IF match.g2 # <<>> THEN <<[text |-> match.g2, bold |-> TRUE, italic |-> TRUE]>>
        ELSE IF match.g3 # <<>> THEN <<italicSegment(match.g3)>>
        ELSE <<>>)

\* the body of the while loop: the segments after the pushes for one match
pushMatch(text, lastIndex, segments, match) ==
  segments
    \o (IF match.index > lastIndex
        THEN <<plainSegment(SubSeq(text, lastIndex, match.index - 1))>>
        ELSE <<>>)
    \o (IF match.g2 # <<>> THEN <<boldSegment(match.g2)>>
        ELSE IF match.g3 # <<>> THEN <<italicSegment(match.g3)>>
        ELSE <<>>)

\* The while loop of parseInlineFormatting. lastIndex is both the local
\* variable and pattern.lastIndex (they are equal before every exec).
RECURSIVE inlineLoop(_, _, _)
inlineStep(text, lastIndex, segments, match) ==
  IF match = null
  THEN [lastIndex |-> lastIndex, segments |-> segments]
  ELSE inlineLoop(text, match.index + match.length,
                  pushMatch(text, lastIndex, segments, match))

inlineLoop(text, lastIndex, segments) ==
  inlineStep(text, lastIndex, segments, exec(text, lastIndex))

\* if (segments.length === 0) segments.push({ text })
orWholeText(text, segments) ==
  IF segments = <<>> THEN <<plainSegment(text)>> ELSE segments

\* afterLoop without the push of the text that follows the last match
afterLoopDropsRest(text, loop) == orWholeText(text, loop.segments)

\* the statements after the loop: the remaining text, then the default
afterLoop(text, loop) ==
  orWholeText(text,
              IF loop.lastIndex <= Len(text)
              THEN Append(loop.segments, plainSegment(Slice(text, loop.lastIndex)))
              ELSE loop.segments)

parseInlineFormatting(text) == afterLoop(text, inlineLoop(text, 1, <<>>))

(***************************************************************************)
(* parseLine                                                               *)
(***************************************************************************)
\* bulletPrefix with the pattern taking one \s only
bulletPrefixOneSpace(line) ==
  IF Len(line) >= 2 /\ line[1] \in {"-", "*"} /\ line[2] \in WhiteSpace THEN 2 ELSE 0

\* Length of the match of the bullet pattern (anchored: a hyphen or an
\* asterisk, then one or more \s, greedy) in line; 0 when it does not match
bulletPrefix(line) ==
  IF Len(line) >= 2 /\ line[1] \in {"-", "*"} /\ line[2] \in WhiteSpace
  THEN Min({n \in 2..Len(line) : n = Len(line) \/ line[n + 1] \notin WhiteSpace})
  ELSE 0

\* the number of leading digits of line
leadingDigits(line) ==
  IF Len(line) >= 1 /\ line[1] \in Digits
  THEN Min({n \in 1..Len(line) : n = Len(line) \/ line[n + 1] \notin Digits})
  ELSE 0

\* the numbered-list pattern after d digits
numberPrefixAfter(line, d) ==
  IF d >= 1 /\ Len(line) >= d + 2 /\ line[d + 1] = "." /\ line[d + 2] \in WhiteSpace
  THEN Min({n \in (d + 2)..Len(line) : n = Len(line) \/ line[n + 1] \notin WhiteSpace})
  ELSE 0

\* Length of the match of the numbered-list pattern (anchored: one or more
\* digits, a dot, one or more \s, all greedy) in line; 0 when it does not match
numberPrefix(line) == numberPrefixAfter(line, leadingDigits(line))

\* the type and the content of a prefix test that succeeded
prefix(type, content) == [type |-> type, content |-> content]

\* the chain of prefix tests with the heading-1 prefix tested without its space
prefixOfHashOnly(line) ==
  IF startsWith(line, <<"#">>) THEN prefix("heading1", Slice(line, 3))
  ELSE IF startsWith(line, <<"#", "#", " ">>) THEN prefix("heading2", Slice(line, 4))
  ELSE IF startsWith(line, <<"#", "#", "#", " ">>) THEN prefix("heading3", Slice(line, 5))
  ELSE IF bulletPrefix(line) > 0 THEN prefix("bullet", Slice(line, bulletPrefix(line) + 1))
  ELSE IF numberPrefix(line) > 0 THEN prefix("bullet", Slice(line, numberPrefix(line) + 1))
  ELSE prefix("paragraph", line)

\* the chain of prefix tests with the numbered-list branch keeping the whole line
prefixOfKeepsNumber(line) ==
  IF startsWith(line, <<"#", " ">>) THEN prefix("heading1", Slice(line, 3))
  ELSE IF startsWith(line, <<"#", "#", " ">>) THEN prefix("heading2", Slice(line, 4))
  ELSE IF startsWith(line, <<"#", "#", "#", " ">>) THEN prefix("heading3", Slice(line, 5))
  ELSE IF bulletPrefix(line) > 0 THEN prefix("bullet", Slice(line, bulletPrefix(line) + 1))
  ELSE IF numberPrefix(line) > 0 THEN prefix("bullet", line)
  ELSE prefix("paragraph", line)

\* the chain of prefix tests of parseLine, first match wins
prefixOf(line) ==
  IF startsWith(line, <<"#", " ">>) THEN prefix("heading1", Slice(line, 3))
  ELSE IF startsWith(line, <<"#", "#", " ">>) THEN prefix("heading2", Slice(line, 4))
  ELSE IF startsWith(line, <<"#", "#", "#", " ">>) THEN prefix("heading3", Slice(line, 5))
  ELSE IF bulletPrefix(line) > 0 THEN prefix("bullet", Slice(line, bulletPrefix(line) + 1))
  ELSE IF numberPrefix(line) > 0 THEN prefix("bullet", Slice(line, numberPrefix(line) + 1))
  ELSE prefix("paragraph", line)

\* the ParsedLine every branch returns
parsedLine(found) ==
  [type |-> found.type,
   segments |-> parseInlineFormatting(found.content),
   rawText |-> found.content]

\* what parseLine returns for a blank line
nullLine == [type |-> "null", segments |-> <<>>, rawText |-> <<>>]

\* parseLine without the test for a blank line
parseLineKeepsBlank(line) == parsedLine(prefixOf(line))

\* parseLine with the chain of prefix tests run again on the content
parseLineStripsTwice(line) ==
  IF trim(line) = <<>> THEN nullLine
  ELSE parsedLine(prefix(prefixOf(line).type, prefixOf(prefixOf(line).content).content))

parseLine(line) ==
  IF trim(line) = <<>> THEN nullLine ELSE parsedLine(prefixOf(line))

(***************************************************************************)
(* markdownToDocsRequests                                                  *)
(***************************************************************************)
\* the synthetic paragraph pushed for a blank-line separator
spacerLine == [type |-> "paragraph", segments |-> <<plainSegment(<<>>)>>, rawText |-> <<>>]

\* pushLine without the test that a line was pushed before
pushLineLeadingSpacer(parsedSoFar, previousWasEmpty, parsed) ==
  Append(IF previousWasEmpty THEN Append(parsedSoFar, spacerLine) ELSE parsedSoFar,
         parsed)

\* the pushes for a non-blank line
pushLine(parsedSoFar, previousWasEmpty, parsed) ==
  Append(IF previousWasEmpty /\ Len(parsedSoFar) > 0
         THEN Append(parsedSoFar, spacerLine)
         ELSE parsedSoFar,
         parsed)

\* the first loop: parse all lines
RECURSIVE parseLoop(_, _, _)
parseStep(lines, parsedSoFar, previousWasEmpty, parsed) ==
  IF parsed # nullLine
  THEN parseLoop(Tail(lines), pushLine(parsedSoFar, previousWasEmpty, parsed), FALSE)
  ELSE parseLoop(Tail(lines), parsedSoFar, TRUE)

parseLoop(lines, parsedSoFar, previousWasEmpty) ==
  IF lines = <<>> THEN parsedSoFar
  ELSE parseStep(lines, parsedSoFar, previousWasEmpty, parseLine(Head(lines)))

\* parsed.segments.map(s => s.text).join('')
RECURSIVE lineText(_)
lineText(segments) ==
  IF segments = <<>> THEN <<>> ELSE Head(segments).text \o lineText(Tail(segments))

\* positionLoop with the start taken 0-based (the + 1 forgotten)
RECURSIVE positionLoopZeroBased(_, _, _)
positionLoopZeroBased(lines, text, positions) ==
  IF lines = <<>> THEN [fullText |-> text, linePositions |-> positions]
  ELSE LET parsed == Head(lines)
           start == Len(text)
           grown == text \o lineText(parsed.segments) \o <<"\n">>
           end == Len(grown)
       IN positionLoopZeroBased(Tail(lines), grown,
                                Append(positions, [start |-> start, end |-> end, line |-> parsed]))

\* positionLoop with the end taken before the newline is appended
RECURSIVE positionLoopEndBeforeNewline(_, _, _)
positionLoopEndBeforeNewline(lines, text, positions) ==
  IF lines = <<>> THEN [fullText |-> text, linePositions |-> positions]
  ELSE LET parsed == Head(lines)
           start == Len(text) + 1
           grown == text \o lineText(parsed.segments) \o <<"\n">>
           end == Len(grown) - 1
       IN positionLoopEndBeforeNewline(Tail(lines), grown,
                                       Append(positions, [start |-> start, end |-> end, line |-> parsed]))

\* the second loop: build the full text and record each line's start and end
RECURSIVE positionLoop(_, _, _)
positionLoop(lines, text, positions) ==
  IF lines = <<>> THEN [fullText |-> text, linePositions |-> positions]
  ELSE LET parsed == Head(lines)
           start == Len(text) + 1
           grown == text \o lineText(parsed.segments) \o <<"\n">>
           end == Len(grown)
       IN positionLoop(Tail(lines), grown,
                       Append(positions, [start |-> start, end |-> end, line |-> parsed]))

\* if (fullText) requests.push({insertText: ...})
insertRequests(text) ==
  IF text # <<>>
  THEN <<[kind |-> "insertText", index |-> 1, text |-> text]>>
  ELSE <<>>

headingRequest(start, end, style) ==
  [kind |-> "updateParagraphStyle", startIndex |-> start, endIndex |-> end,
   namedStyleType |-> style]

bulletRequest(start, end) ==
  [kind |-> "createParagraphBullets", startIndex |-> start, endIndex |-> end,
   bulletPreset |-> "BULLET_DISC_CIRCLE_SQUARE"]

textStyleRequest(start, end, field) ==
  [kind |-> "updateTextStyle", startIndex |-> start, endIndex |-> end,
   fields |-> field]

\* the paragraph style chain with the style of heading 2 copied to heading 3
paragraphRequestsCopiedStyle(pos) ==
  IF pos.line.type = "heading1" THEN <<headingRequest(pos.start, pos.end, "HEADING_1")>>
  ELSE IF pos.line.type = "heading2" THEN <<headingRequest(pos.start, pos.end, "HEADING_2")>>
  ELSE IF pos.line.type = "heading3" THEN <<headingRequest(pos.start, pos.end, "HEADING_2")>>
  ELSE IF pos.line.type = "bullet" THEN <<bulletRequest(pos.start, pos.end)>>
  ELSE <<>>

\* the paragraph style chain of one line
paragraphRequests(pos) ==
  IF pos.line.type = "heading1" THEN <<headingRequest(pos.start, pos.end, "HEADING_1")>>
  ELSE IF pos.line.type = "heading2" THEN <<headingRequest(pos.start, pos.end, "HEADING_2")>>
  ELSE IF pos.line.type = "heading3" THEN <<headingRequest(pos.start, pos.end, "HEADING_3")>>
  ELSE IF pos.line.type = "bullet" THEN <<bulletRequest(pos.start, pos.end)>>
  ELSE <<>>

\* segmentLoop with the cursor advanced only past the emphasised segments
RECURSIVE segmentLoopSkipsPlain(_, _)
segmentLoopSkipsPlain(segments, currentIndex) ==
  IF segments = <<>> THEN <<>>
  ELSE LET segment == Head(segments)
           segmentEnd == currentIndex + Len(segment.text)
       IN (IF segment.bold /\ Len(segment.text) > 0
           THEN <<textStyleRequest(currentIndex, segmentEnd, "bold")>> ELSE <<>>)
          \o (IF segment.italic /\ Len(segment.text) > 0
              THEN <<textStyleRequest(currentIndex, segmentEnd, "italic")>> ELSE <<>>)
          \o segmentLoopSkipsPlain(Tail(segments),
                                   IF segment.bold \/ segment.italic
                                   THEN segmentEnd ELSE currentIndex)

\* the inner loop over the segments of one line
RECURSIVE segmentLoop(_, _)
segmentLoop(segments, currentIndex) ==
  IF segments = <<>> THEN <<>>
  ELSE LET segment == Head(segments)
           segmentEnd == currentIndex + Len(segment.text)
       IN (IF segment.bold /\ Len(segment.text) > 0
           THEN <<textStyleRequest(currentIndex, segmentEnd, "bold")>> ELSE <<>>)
          \o (IF segment.italic /\ Len(segment.text) > 0
              THEN <<textStyleRequest(currentIndex, segmentEnd, "italic")>> ELSE <<>>)
          \o segmentLoop(Tail(segments), segmentEnd)

\* the third loop: the formatting requests of all lines
RECURSIVE formatLoop(_)
formatLoop(positions) ==
  IF positions = <<>> THEN <<>>
  ELSE paragraphRequests(Head(positions))
       \o segmentLoop(Head(positions).line.segments, Head(positions).start)
       \o formatLoop(Tail(positions))

\* assemble with the insert pushed after the formatting requests
assembleInsertLast(text, positions) == formatLoop(positions) \o insertRequests(text)

\* requests: the insert, then requests.push(...formatRequests)
assemble(text, positions) == insertRequests(text) \o formatLoop(positions)

\* the values of the locals when the function returns
returned(parsed, built) ==
  [parsedLines |-> parsed,
   fullText |-> built.fullText,
   linePositions |-> built.linePositions,
   requests |-> assemble(built.fullText, built.linePositions)]

\* the second and third loops, given the parsed lines
build(parsed) == returned(parsed, positionLoop(parsed, <<>>, <<>>))

markdownToDocsRequests(md) == build(parseLoop(split(md), <<>>, FALSE))

(***************************************************************************)
(* The state machine: one call of markdownToDocsRequests on an input.      *)
(***************************************************************************)
\* lines joined by newlines
RECURSIVE join(_)
join(lines) ==
  IF lines = <<>> THEN <<>>
  ELSE IF Len(lines) = 1 THEN lines[1]
  ELSE lines[1] \o <<"\n">> \o join(Tail(lines))

Docs(n) == {join(d) : d \in Strs(SampleLines, n)}

Inputs ==
  Strs(Alphabet, MaxLen) \cup Strs(InlineAlphabet, MaxInlineLen)
    \cup Docs(MaxLines) \cup Scenarios

Init ==
  /\ markdown \in Inputs
  /\ pc = "ready"
  /\ parsedLines = <<>>
  /\ fullText = <<>>
  /\ linePositions = <<>>
  /\ requests = <<>>
  /\ IdleExceptMarkdown

Return(out) ==
  /\ parsedLines' = out.parsedLines
  /\ fullText' = out.fullText
  /\ linePositions' = out.linePositions
  /\ requests' = out.requests

CallMarkdownToDocsRequests ==
  /\ pc = "ready"
  /\ Return(markdownToDocsRequests(markdown))
  /\ pc' = "done"
  /\ UNCHANGED markdown
  /\ UNCHANGED notMarkdown

Next == CallMarkdownToDocsRequests

Spec == Init /\ [][Next]_vars

(***************************************************************************)
(* updateDoc.  The body of a document is its text from index 1 on and ends *)
(* with a newline that cannot be deleted; a body of n characters has its   *)
(* last element end at index n + 1.                                        *)
(***************************************************************************)
\* lastEndIndex with the length taken for the end index
lastEndIndexIsLength(text) == IF Len(text) = 0 THEN 1 ELSE Len(text)

\* doc.data.body.content.slice(-1)[0].endIndex || 1
lastEndIndex(text) == IF Len(text) + 1 = 0 THEN 1 ELSE Len(text) + 1

\* the delete batch with the test off by one
deleteRequestsLongOnly(end) ==
  IF end > 3
  THEN <<[kind |-> "deleteContentRange", startIndex |-> 1, endIndex |-> end - 1]>>
  ELSE <<>>

\* the requests of the delete batch
deleteRequests(end) ==
  IF end > 2
  THEN <<[kind |-> "deleteContentRange", startIndex |-> 1, endIndex |-> end - 1]>>
  ELSE <<>>

\* the requests of the insert batch
insertRequestsOf(text, asMarkdown) ==
  IF asMarkdown THEN markdownToDocsRequests(text).requests
  ELSE <<[kind |-> "insertText", index |-> 1, text |-> text]>>

\* the text of a body after one request of a batch
applyRequest(text, r) ==
  IF r.kind = "deleteContentRange"
  THEN SubSeq(text, 1, r.startIndex - 1) \o Slice(text, r.endIndex)
  ELSE IF r.kind = "insertText"
  THEN SubSeq(text, 1, r.index - 1) \o r.text \o Slice(text, r.index)
  ELSE text

\* the text of a body after the requests of a batch, in order
RECURSIVE applyBatch(_, _)
applyBatch(text, batch) ==
  IF batch = <<>> THEN text
  ELSE applyBatch(applyRequest(text, Head(batch)), Tail(batch))

\* a request the service may refuse: an insert of no text, an empty range
IsDegenerate(r) ==
  IF r.kind = "insertText" THEN r.text = <<>> ELSE r.startIndex >= r.endIndex

\* the replies of the service to a batch: TRUE when it applies it; an empty
\* batch or a batch with a degenerate request may be applied or refused
Replies(batch) ==
  IF batch = <<>> \/ \E i \in 1..Len(batch) : IsDegenerate(batch[i])
  THEN {TRUE, FALSE}
  ELSE {TRUE}

PriorBodies == {t \o <<"\n">> : t \in Strs(BodyAlphabet, MaxBody)}
Contents == Strs(Alphabet, MaxContent) \cup Scenarios

InitUpdate ==
  /\ IdleExceptUpdate
  /\ body \in PriorBodies
  /\ updateContent \in Contents
  /\ optionsMarkdown \in BOOLEAN
  /\ endIndex = 0
  /\ updatePc = "get"
  /\ batchUpdates = <<>>

\* const doc = await docs.documents.get(...); const endIndex = ...
GetDocument ==
  /\ updatePc = "get"
  /\ endIndex' = lastEndIndex(body)
  /\ updatePc' = "delete"
  /\ UNCHANGED <<body, updateContent, optionsMarkdown, batchUpdates>>
  /\ UNCHANGED notUpdate

\* await docs.documents.batchUpdate(...) of one batch that the service applies
Applied(batch, next) ==
  /\ body' = applyBatch(body, batch)
  /\ batchUpdates' = Append(batchUpdates, batch)
  /\ updatePc' = next

\* the same call when the service refuses the batch: the call throws
Refused(batch) ==
  /\ batchUpdates' = Append(batchUpdates, batch)
  /\ updatePc' = "thrown"
  /\ UNCHANGED body

Send(batch, next) ==
  \E ok \in Replies(batch) : IF ok THEN Applied(batch, next) ELSE Refused(batch)

\* if (requests.length > 0) await docs.documents.batchUpdate(...)
SendIfAny(batch, next) ==
  IF Len(batch) > 0 THEN Send(batch, next)
  ELSE updatePc' = next /\ UNCHANGED <<body, batchUpdates>>

DeleteContent ==
  /\ updatePc = "delete"
  /\ SendIfAny(deleteRequests(endIndex), "insert")
  /\ UNCHANGED <<updateContent, optionsMarkdown, endIndex>>
  /\ UNCHANGED notUpdate

InsertContent ==
  /\ updatePc = "insert"
  /\ Send(insertRequestsOf(updateContent, optionsMarkdown), "returned")
  /\ UNCHANGED <<updateContent, optionsMarkdown, endIndex>>
  /\ UNCHANGED notUpdate

NextUpdate == GetDocument \/ DeleteContent \/ InsertContent

SpecUpdate == InitUpdate /\ [][NextUpdate]_vars
(***************************************************************************)
(* Vocabulary of the properties.                                           *)
(***************************************************************************)
Done == pc = "done"

IsInsert(r) == r.kind = "insertText"
IsFormat(r) == r.kind # "insertText"
IsTextStyle(r) == r.kind = "updateTextStyle"
IsParagraphLevel(r) == r.kind \in {"updateParagraphStyle", "createParagraphBullets"}

FormatOps == SelectSeq(requests, IsFormat)
TextStyleOps == SelectSeq(requests, IsTextStyle)
ParagraphOps == SelectSeq(requests, IsParagraphLevel)

\* the text of the insert request of the script, empty when there is none
InsertedText ==
  IF requests # <<>> /\ IsInsert(requests[1]) THEN requests[1].text ELSE <<>>

IsBlank(line) == \A i \in 1..Len(line) : line[i] \in WhiteSpace
SourceLines == split(markdown)
HasNonBlankLine == \E i \in 1..Len(SourceLines) : ~IsBlank(SourceLines[i])

IsEmphasis(seg) == seg.bold \/ seg.italic

\* the number of bold or italic spans of the first k parsed lines
RECURSIVE EmphasisBefore(_)
EmphasisBefore(k) ==
  IF k = 0 THEN 0
  ELSE EmphasisBefore(k - 1)
       + Cardinality({m \in 1..Len(parsedLines[k].segments) :
                        IsEmphasis(parsedLines[k].segments[m])})

\* the parsed line the n-th bold or italic span of the document belongs to
OwnerOf(n) ==
  CHOOSE k \in 1..Len(parsedLines) : EmphasisBefore(k - 1) < n /\ n <= EmphasisBefore(k)

(***************************************************************************)
(* C1: for `# Title`, an empty line, `Hello **world**` the script is       *)
(* exactly: insertText at index 1 of "Title\n\nHello world\n"; HEADING_1   *)
(* over the range recorded for the first line; bold over exactly the five  *)
(* characters "world" of the third line.  Nothing else is emitted and the  *)
(* blank line is one spacer paragraph without an operation.                *)
(***************************************************************************)
C1_TitleHelloWorld ==
  (Done /\ markdown = TitleHelloWorld) =>
    /\ Len(requests) = 3
    /\ requests[1] =
         [kind |-> "insertText", index |-> 1,
          text |-> <<"T", "i", "t", "l", "e", "\n", "\n",
                     "H", "e", "l", "l", "o", " ", "w", "o", "r", "l", "d", "\n">>]
    /\ requests[2] = headingRequest(1, 6, "HEADING_1")
    /\ SubSeq(requests[1].text, requests[2].startIndex, requests[2].endIndex - 1)
         = <<"T", "i", "t", "l", "e">>
    /\ requests[3] = textStyleRequest(14, 19, "bold")
    /\ SubSeq(requests[1].text, requests[3].startIndex, requests[3].endIndex - 1)
         = <<"w", "o", "r", "l", "d">>
    /\ Len(parsedLines) = 3
    /\ parsedLines[2] = spacerLine

C1_Witness ==
  Done /\ markdown = TitleHelloWorld /\ Len(requests) = 3 /\ Len(linePositions) = 3

(***************************************************************************)
(* C2: when the input has a non-blank line, the script holds exactly one   *)
(* insertText request; it is the first request, it targets index 1, it     *)
(* carries the whole body (every parsed line's text and its newline), and  *)
(* every formatting request comes strictly after it.                       *)
(***************************************************************************)
RECURSIVE BodyOf(_)
BodyOf(lines) ==
  IF lines = <<>> THEN <<>>
  ELSE lineText(Head(lines).segments) \o <<"\n">> \o BodyOf(Tail(lines))

C2_SingleInsertFirst ==
  (Done /\ HasNonBlankLine) =>
    /\ Cardinality({i \in 1..Len(requests) : IsInsert(requests[i])}) = 1
    /\ IsInsert(requests[1])
    /\ requests[1].index = 1
    /\ requests[1].text = BodyOf(parsedLines)
    /\ requests[1].text # <<>>
    /\ \A i \in 1..Len(requests) : IsFormat(requests[i]) => i > 1

C2_Witness ==
  /\ Done /\ HasNonBlankLine
  /\ Len(requests) >= 3
  /\ IsInsert(requests[1])
  /\ \E i \in 2..Len(requests) : IsTextStyle(requests[i])
  /\ \E i \in 2..Len(requests) : IsParagraphLevel(requests[i])

(***************************************************************************)
(* C3: every formatting range lies within [1, length(insertText) + 1],     *)
(* and the range of every bold or italic request lies within the           *)
(* [start, end] recorded for the line its span belongs to.                 *)
(***************************************************************************)
C3_RangesValid ==
  Done =>
    /\ \A i \in 1..Len(FormatOps) :
         /\ 1 <= FormatOps[i].startIndex
         /\ FormatOps[i].startIndex <= Len(InsertedText) + 1
         /\ 1 <= FormatOps[i].endIndex
         /\ FormatOps[i].endIndex <= Len(InsertedText) + 1
    /\ Len(TextStyleOps) = EmphasisBefore(Len(parsedLines))
    /\ \A n \in 1..Len(TextStyleOps) :
         /\ linePositions[OwnerOf(n)].start <= TextStyleOps[n].startIndex
         /\ TextStyleOps[n].endIndex <= linePositions[OwnerOf(n)].end

\* a span that ends where its line ends, in a line that is not the first
C3_Witness ==
  /\ Done
  /\ \E n \in 1..Len(TextStyleOps) :
       /\ OwnerOf(n) > 1
       /\ TextStyleOps[n].endIndex = linePositions[OwnerOf(n)].end
  /\ \E i \in 1..Len(ParagraphOps) : ParagraphOps[i].endIndex = Len(InsertedText)
(***************************************************************************)
(* C4: every formatting request has start >= 1 and end > start (no empty   *)
(* or inverted range), also for a heading or bullet prefix followed by     *)
(* empty content.                                                          *)
(***************************************************************************)
C4_RangesNonEmpty ==
  Done =>
    \A i \in 1..Len(FormatOps) :
      /\ FormatOps[i].startIndex >= 1
      /\ FormatOps[i].endIndex > FormatOps[i].startIndex

(***************************************************************************)
(* C5: with the body inserted at offset 1, the end recorded for a line is  *)
(* the offset immediately after the line's newline, so [start, end) of     *)
(* every heading or bullet request contains the offset of the line's own   *)
(* newline.                                                                *)
(***************************************************************************)
NewlineOffsets == {i \in 1..Len(InsertedText) : InsertedText[i] = "\n"}

\* the offset of the newline that ends the k-th line of the body
NewlineOffset(k) ==
  CHOOSE i \in NewlineOffsets : Cardinality({j \in NewlineOffsets : j <= i}) = k

C5_EndAfterNewline ==
  Done =>
    /\ Cardinality(NewlineOffsets) = Len(linePositions)
    /\ \A k \in 1..Len(linePositions) :
         linePositions[k].end = NewlineOffset(k) + 1
    /\ \A i \in 1..Len(ParagraphOps) :
         \E k \in 1..Len(linePositions) :
           /\ linePositions[k].start = ParagraphOps[i].startIndex
           /\ ParagraphOps[i].startIndex <= NewlineOffset(k)
           /\ NewlineOffset(k) < ParagraphOps[i].endIndex

(***************************************************************************)
(* C6: in each line the spans are walked left to right with a cursor that  *)
(* starts at the line's start: a bold or italic span gives exactly one     *)
(* text-style request over [cursor, cursor + length of the span text), a   *)
(* plain span gives none, and the cursor advances by the span's length in  *)
(* every case.  So the range of an emphasis request is the position of     *)
(* the span's text in the inserted body and excludes the line's newline.   *)
(***************************************************************************)
\* the length of the texts of the first m spans of the k-th parsed line
PrefixLen(k, m) == Len(lineText(SubSeq(parsedLines[k].segments, 1, m)))

\* the rank of span m of line k among the bold or italic spans of the document
EmphasisRank(k, m) ==
  EmphasisBefore(k - 1)
    + Cardinality({j \in 1..m : IsEmphasis(parsedLines[k].segments[j])})

C6_SpanCursor ==
  Done =>
    /\ Len(TextStyleOps) = EmphasisBefore(Len(parsedLines))
    /\ \A k \in 1..Len(parsedLines) :
         \A m \in 1..Len(parsedLines[k].segments) :
           LET seg == parsedLines[k].segments[m]
               cursor == linePositions[k].start + PrefixLen(k, m - 1)
               op == TextStyleOps[EmphasisRank(k, m)]
           IN IsEmphasis(seg) =>
                /\ op.startIndex = cursor
                /\ op.endIndex = cursor + Len(seg.text)
                /\ op.fields = (IF seg.bold THEN "bold" ELSE "italic")
                /\ SubSeq(InsertedText, op.startIndex, op.endIndex - 1) = seg.text
                /\ op.endIndex <= NewlineOffset(k)
                /\ \A o \in op.startIndex..(op.endIndex - 1) : InsertedText[o] # "\n"

\* an emphasised span after a plain one, in a line that is not the first
C6_Witness ==
  /\ Done
  /\ \E k \in 2..Len(parsedLines) :
       \E m \in 2..Len(parsedLines[k].segments) :
         /\ IsEmphasis(parsedLines[k].segments[m])
         /\ ~IsEmphasis(parsedLines[k].segments[m - 1])
         /\ parsedLines[k].segments[m - 1].text # <<>>
         /\ TextStyleOps[EmphasisRank(k, m)].startIndex > linePositions[k].start
(***************************************************************************)
(* C7: parseLine classifies a non-blank line by strict prefix: `# ` is     *)
(* Heading1 with the text after 2 characters, `## ` Heading2 after 3,      *)
(* `### ` Heading3 after 4; a hyphen or asterisk and a whitespace is       *)
(* Bullet; digits, a dot and a whitespace is Bullet; anything else is      *)
(* Paragraph with the line verbatim.  Hashes not followed by a space, and  *)
(* a prefix after leading whitespace, give Paragraph.                      *)
(***************************************************************************)
NotBlank(line) == ~IsBlank(line)
NonBlankLines == SelectSeq(SourceLines, NotBlank)

IsSpacer(p) == p.type = "paragraph" /\ p.rawText = <<>>
NotSpacer(p) == ~IsSpacer(p)
\* the parsed lines that come from a source line
RealLines == SelectSeq(parsedLines, NotSpacer)

HashesThenSpace(line, n) ==
  /\ Len(line) >= n + 1
  /\ \A i \in 1..n : line[i] = "#"
  /\ line[n + 1] = " "

IsMarkerBullet(line) ==
  Len(line) >= 2 /\ line[1] \in {"-", "*"} /\ line[2] \in WhiteSpace

IsNumberBullet(line) ==
  \E d \in 1..(Len(line) - 2) :
    /\ \A i \in 1..d : line[i] \in Digits
    /\ line[d + 1] = "."
    /\ line[d + 2] \in WhiteSpace

ExpectedType(line) ==
  IF HashesThenSpace(line, 1) THEN "heading1"
  ELSE IF HashesThenSpace(line, 2) THEN "heading2"
  ELSE IF HashesThenSpace(line, 3) THEN "heading3"
  ELSE IF IsMarkerBullet(line) \/ IsNumberBullet(line) THEN "bullet"
  ELSE "paragraph"

C7_Classification ==
  Done =>
    /\ Len(RealLines) = Len(NonBlankLines)
    /\ \A i \in 1..Len(RealLines) :
         LET line == NonBlankLines[i]
             p == RealLines[i]
         IN /\ p.type = ExpectedType(line)
            /\ p.type = "heading1" => p.rawText = SubSeq(line, 3, Len(line))
            /\ p.type = "heading2" => p.rawText = SubSeq(line, 4, Len(line))
            /\ p.type = "heading3" => p.rawText = SubSeq(line, 5, Len(line))
            /\ p.type = "paragraph" => p.rawText = line
            /\ (\A j \in 1..Len(line) : line[j] = "#") => p.type = "paragraph"
            /\ (line[1] = "#" /\ \A n \in 1..3 : ~HashesThenSpace(line, n))
                 => p.type = "paragraph"
            /\ line[1] \in WhiteSpace => p.type = "paragraph"

\* a numbered line taken as a bullet next to a line of hashes without a space
C7_Witness ==
  /\ Done
  /\ \E i \in 1..Len(RealLines) :
       RealLines[i].type = "bullet" /\ NonBlankLines[i][1] \in Digits
  /\ \E i \in 1..Len(RealLines) :
       RealLines[i].type = "paragraph" /\ NonBlankLines[i][1] = "#"

(***************************************************************************)
(* C8: a blank line gives no parsed line.  A run of blank lines between    *)
(* two non-blank lines gives exactly one empty spacer paragraph (one more  *)
(* newline in the body, no formatting request) right before the following  *)
(* non-blank line; blank lines before the first and after the last         *)
(* non-blank line give nothing.                                            *)
(***************************************************************************)
NonBlankIdx == {i \in 1..Len(SourceLines) : ~IsBlank(SourceLines[i])}

\* line i is non-blank, follows a blank line, and is not the first non-blank line
NeedsSpacer(i) ==
  /\ i \in NonBlankIdx
  /\ i > 1
  /\ IsBlank(SourceLines[i - 1])
  /\ \E j \in NonBlankIdx : j < i

\* where the parsed line of source line i stands in parsedLines
ParsedIndex(i) ==
  Cardinality({j \in NonBlankIdx : j <= i})
    + Cardinality({j \in NonBlankIdx : j <= i /\ NeedsSpacer(j)})

C8_BlankLines ==
  Done =>
    /\ Len(parsedLines) =
         Cardinality(NonBlankIdx) + Cardinality({i \in NonBlankIdx : NeedsSpacer(i)})
    /\ \A i \in NonBlankIdx :
         /\ ~IsSpacer(parsedLines[ParsedIndex(i)])
         /\ NeedsSpacer(i) => parsedLines[ParsedIndex(i) - 1] = spacerLine
    /\ Cardinality(NewlineOffsets) = Len(parsedLines)
    /\ \A k \in 1..Len(parsedLines) :
         IsSpacer(parsedLines[k]) =>
           /\ InsertedText[linePositions[k].start] = "\n"
           /\ \A i \in 1..Len(FormatOps) :
                /\ FormatOps[i].startIndex # linePositions[k].start
                /\ ~(/\ FormatOps[i].startIndex <= linePositions[k].start
                     /\ linePositions[k].start < FormatOps[i].endIndex)

\* leading blank line, a run of two blank lines between two lines, trailing blank line
C8_Witness ==
  /\ Done
  /\ Len(SourceLines) >= 5
  /\ IsBlank(SourceLines[1])
  /\ IsBlank(SourceLines[Len(SourceLines)])
  /\ \E i \in NonBlankIdx :
       /\ NeedsSpacer(i) /\ i > 2 /\ IsBlank(SourceLines[i - 2])
       /\ \E f \in 1..Len(FormatOps) : FormatOps[f].startIndex = linePositions[ParsedIndex(i)].start
  /\ Len(parsedLines) = 3
(***************************************************************************)
(* C9: the bold alternative is tried before the italic one: content        *)
(* `**x**` with x non-empty and without an asterisk is the single span     *)
(* [bold x], and content `**a***b*` is exactly [bold "a", italic "b"].     *)
(***************************************************************************)
NoAsterisk(x) == \A i \in 1..Len(x) : x[i] # "*"
\* no character that `.` refuses (carriage return; also U+2028, U+2029)
NoLineTerminator(x) == \A i \in 1..Len(x) : x[i] \notin {"\n", "\r"}

\* content is two asterisks, a non-empty x without asterisk, two asterisks
IsBoldOnly(c) ==
  /\ Len(c) >= 5
  /\ SubSeq(c, 1, 2) = <<"*", "*">>
  /\ SubSeq(c, Len(c) - 1, Len(c)) = <<"*", "*">>
  /\ NoAsterisk(SubSeq(c, 3, Len(c) - 2))

BoldInner(c) == SubSeq(c, 3, Len(c) - 2)

\* the claim as stated, for every x
C9_BoldFirstAnyContent ==
  Done =>
    \A k \in 1..Len(parsedLines) :
      LET c == parsedLines[k].rawText
      IN /\ IsBoldOnly(c) => parsedLines[k].segments = <<boldSegment(BoldInner(c))>>
         /\ c = BoldThenItalic =>
              parsedLines[k].segments = <<boldSegment(<<"a">>), italicSegment(<<"b">>)>>

\* the claim for x without a line terminator
C9_BoldFirst ==
  Done =>
    \A k \in 1..Len(parsedLines) :
      LET c == parsedLines[k].rawText
      IN /\ (IsBoldOnly(c) /\ NoLineTerminator(BoldInner(c)))
              => parsedLines[k].segments = <<boldSegment(BoldInner(c))>>
         /\ c = BoldThenItalic =>
              parsedLines[k].segments = <<boldSegment(<<"a">>), italicSegment(<<"b">>)>>

C9_Witness ==
  /\ Done
  /\ \E k \in 1..Len(parsedLines) :
       /\ IsBoldOnly(parsedLines[k].rawText)
       /\ Len(parsedLines[k].segments) = 1
       /\ parsedLines[k].segments[1].bold
  /\ \E k \in 1..Len(parsedLines) :
       /\ parsedLines[k].rawText = BoldThenItalic
       /\ Len(parsedLines[k].segments) = 2
       /\ parsedLines[k].segments[2].italic

(***************************************************************************)
(* C10: unterminated emphasis markers never match: a pair of asterisks     *)
(* without a later closing pair gives no bold span, an asterisk without a  *)
(* later closing asterisk gives no italic span, and the characters of      *)
(* every unmatched marker appear verbatim inside plain spans.              *)
(***************************************************************************)
\* the number of asterisks on each side of a span's text in the content
MarkerLen(seg) == IF seg.bold THEN 2 ELSE IF seg.italic THEN 1 ELSE 0

\* the length of the content the spans stand for, markers included
RECURSIVE SourceLen(_)
SourceLen(segs) ==
  IF segs = <<>> THEN 0
  ELSE Len(Head(segs).text) + 2 * MarkerLen(Head(segs)) + SourceLen(Tail(segs))

\* The spans, with their markers, lie one after the other over the whole
\* content: each span's text stands verbatim in the content, an emphasised
\* span is non-empty and has its opening marker right before its text and
\* its closing marker right after it.
Aligned(c, segs) ==
  /\ SourceLen(segs) = Len(c)
  /\ \A m \in 1..Len(segs) :
       LET p == SourceLen(SubSeq(segs, 1, m - 1)) + 1
           w == MarkerLen(segs[m])
           n == Len(segs[m].text)
       IN /\ SubSeq(c, p + w, p + w + n - 1) = segs[m].text
          /\ \A i \in 0..(w - 1) : c[p + i] = "*" /\ c[p + w + n + i] = "*"
          /\ IsEmphasis(segs[m]) => n >= 1
          /\ ~(segs[m].bold /\ segs[m].italic)

\* a pair of asterisks with a later pair of asterisks that does not overlap it
HasClosedPair(c) ==
  \E i, j \in 1..(Len(c) - 1) :
    /\ j >= i + 2
    /\ c[i] = "*" /\ c[i + 1] = "*" /\ c[j] = "*" /\ c[j + 1] = "*"

\* an asterisk with a later asterisk
HasClosedAsterisk(c) ==
  \E i, j \in 1..Len(c) : i < j /\ c[i] = "*" /\ c[j] = "*"

NeverMatchUnterminated(c, segs) ==
  /\ ~HasClosedPair(c) => \A m \in 1..Len(segs) : ~segs[m].bold
  /\ ~HasClosedAsterisk(c) => \A m \in 1..Len(segs) : ~segs[m].italic

\* the claim as stated: the asterisks that are not the markers of a span
\* stand in plain spans
C10_UnmatchedInPlainSpans ==
  Done =>
    \A k \in 1..Len(parsedLines) :
      LET c == parsedLines[k].rawText
          segs == parsedLines[k].segments
      IN /\ NeverMatchUnterminated(c, segs)
         /\ Aligned(c, segs)
         /\ \A m \in 1..Len(segs) : IsEmphasis(segs[m]) => NoAsterisk(segs[m].text)

\* the asterisks that are not the markers of a span stand verbatim in the
\* text of a span, plain or emphasised; content without two asterisks is one
\* plain span
C10_UnmatchedVerbatim ==
  Done =>
    \A k \in 1..Len(parsedLines) :
      LET c == parsedLines[k].rawText
          segs == parsedLines[k].segments
      IN /\ NeverMatchUnterminated(c, segs)
         /\ Aligned(c, segs)
         /\ ~HasClosedAsterisk(c) => segs = <<plainSegment(c)>>

\* an unterminated pair whose second asterisk ends up inside an italic span,
\* followed by an unterminated asterisk left in a plain span
C10_Witness ==
  /\ Done
  /\ \E k \in 1..Len(parsedLines) :
       LET c == parsedLines[k].rawText
           segs == parsedLines[k].segments
       IN /\ ~HasClosedPair(c)
          /\ Len(segs) = 2
          /\ segs[1].italic /\ ~NoAsterisk(segs[1].text)
          /\ ~IsEmphasis(segs[2]) /\ ~NoAsterisk(segs[2].text)
(***************************************************************************)
(* C11: span coverage: for every parsed line, the texts of its spans,      *)
(* concatenated in order, are exactly the line's content string (the       *)
(* rawText parseLine records), with and without emphasis markers.          *)
(***************************************************************************)
\* the positions of the content that hold the asterisks of the markers of span m
DelimitersOf(segs, m) ==
  LET p == SourceLen(SubSeq(segs, 1, m - 1)) + 1
      w == MarkerLen(segs[m])
      n == Len(segs[m].text)
  IN (p..(p + w - 1)) \cup ((p + w + n)..(p + 2 * w + n - 1))

Delimiters(segs) == UNION {DelimitersOf(segs, m) : m \in 1..Len(segs)}

\* the characters of c from position i on that do not stand at a position of D
RECURSIVE Without(_, _, _)
Without(c, i, D) ==
  IF i > Len(c) THEN <<>>
  ELSE (IF i \in D THEN <<>> ELSE <<c[i]>>) \o Without(c, i + 1, D)

HasEmphasis(segs) == \E m \in 1..Len(segs) : IsEmphasis(segs[m])

\* the claim as stated: the span texts make up the content exactly
C11_SpanTextsAreContent ==
  Done =>
    \A k \in 1..Len(parsedLines) :
      lineText(parsedLines[k].segments) = parsedLines[k].rawText

\* the span texts make up the content without the asterisks of the matched
\* markers; they are the content exactly when no marker matched
C11_SpanTextsAreContentWithoutMarkers ==
  Done =>
    \A k \in 1..Len(parsedLines) :
      LET c == parsedLines[k].rawText
          segs == parsedLines[k].segments
      IN /\ SourceLen(segs) = Len(c)
         /\ lineText(segs) = Without(c, 1, Delimiters(segs))
         /\ Len(lineText(segs)) = Len(c) - Cardinality(Delimiters(segs))
         /\ HasEmphasis(segs) <=> lineText(segs) # c

\* a line with text before, inside and after a matched marker
C11_Witness ==
  /\ Done
  /\ \E k \in 1..Len(parsedLines) :
       LET segs == parsedLines[k].segments
       IN /\ Len(segs) = 3
          /\ ~IsEmphasis(segs[1]) /\ IsEmphasis(segs[2]) /\ ~IsEmphasis(segs[3])
          /\ lineText(segs) # parsedLines[k].rawText

(***************************************************************************)
(* C12: every span carries exactly one emphasis value (never bold and      *)
(* italic together), every text-style request sets exactly one of bold or  *)
(* italic, and within one line the ranges of the emphasis requests are     *)
(* pairwise disjoint.                                                      *)
(***************************************************************************)
Disjoint(a, b) == a.endIndex <= b.startIndex \/ b.endIndex <= a.startIndex

C12_OneEmphasisDisjointRanges ==
  Done =>
    /\ \A k \in 1..Len(parsedLines) :
         \A m \in 1..Len(parsedLines[k].segments) :
           ~(parsedLines[k].segments[m].bold /\ parsedLines[k].segments[m].italic)
    /\ \A n \in 1..Len(TextStyleOps) : TextStyleOps[n].fields \in {"bold", "italic"}
    /\ Len(TextStyleOps) = EmphasisBefore(Len(parsedLines))
    /\ \A n1, n2 \in 1..Len(TextStyleOps) :
         (n1 # n2 /\ OwnerOf(n1) = OwnerOf(n2))
           => Disjoint(TextStyleOps[n1], TextStyleOps[n2])

\* a bold and an italic request of the same line, one right after the other
C12_Witness ==
  /\ Done
  /\ \E n \in 1..(Len(TextStyleOps) - 1) :
       /\ OwnerOf(n) = OwnerOf(n + 1)
       /\ TextStyleOps[n].fields = "bold"
       /\ TextStyleOps[n + 1].fields = "italic"
       /\ TextStyleOps[n].endIndex = TextStyleOps[n + 1].startIndex
(***************************************************************************)
(* C13: a Heading1/2/3 line gives exactly one paragraph style request with *)
(* style HEADING_1/2/3 and a Bullet line exactly one bullet request, each  *)
(* over the [start, end) recorded for the line; Paragraph lines and        *)
(* spacers give none.  For `- one`, `- two` the script is the insert of    *)
(* "one\ntwo\n" and two bullet requests, with no heading and no emphasis.  *)
(***************************************************************************)
StyledIdx == {k \in 1..Len(linePositions) : linePositions[k].line.type # "paragraph"}

StyleOfType(type) ==
  IF type = "heading1" THEN "HEADING_1"
  ELSE IF type = "heading2" THEN "HEADING_2"
  ELSE "HEADING_3"

C13_OneParagraphOpPerLine ==
  Done =>
    /\ Len(ParagraphOps) = Cardinality(StyledIdx)
    /\ \A k \in StyledIdx :
         LET op == ParagraphOps[Cardinality({j \in StyledIdx : j <= k})]
             type == parsedLines[k].type
         IN /\ op.startIndex = linePositions[k].start
            /\ op.endIndex = linePositions[k].end
            /\ type = "bullet" =>
                 /\ op.kind = "createParagraphBullets"
                 /\ op.bulletPreset = "BULLET_DISC_CIRCLE_SQUARE"
            /\ type # "bullet" =>
                 /\ op.kind = "updateParagraphStyle"
                 /\ op.namedStyleType = StyleOfType(type)
    /\ markdown = OneTwo =>
         requests = << [kind |-> "insertText", index |-> 1,
                        text |-> <<"o", "n", "e", "\n", "t", "w", "o", "\n">>],
                       [kind |-> "createParagraphBullets", startIndex |-> 1, endIndex |-> 4,
                        bulletPreset |-> "BULLET_DISC_CIRCLE_SQUARE"],
                       [kind |-> "createParagraphBullets", startIndex |-> 5, endIndex |-> 8,
                        bulletPreset |-> "BULLET_DISC_CIRCLE_SQUARE"] >>

\* a heading-3 line and a bullet line in one document
C13_Witness ==
  /\ Done
  /\ Len(ParagraphOps) = 2
  /\ \E n \in 1..2 : /\ ParagraphOps[n].kind = "updateParagraphStyle"
                     /\ ParagraphOps[n].namedStyleType = "HEADING_3"
  /\ \E n \in 1..2 : ParagraphOps[n].kind = "createParagraphBullets"

(***************************************************************************)
(* C14: a numbered line is rendered as a bulleted one: the script for a    *)
(* document is the script for the same document with the digits and the    *)
(* dot of every numbered line replaced by a hyphen; the number is nowhere  *)
(* in the output.                                                          *)
(***************************************************************************)
\* the number of digits before the dot of a numbered line
DigitsOf(line) ==
  CHOOSE d \in 1..(Len(line) - 2) :
    /\ \A i \in 1..d : line[i] \in Digits
    /\ line[d + 1] = "."
    /\ line[d + 2] \in WhiteSpace

Dashed(line) ==
  IF IsNumberBullet(line) THEN <<"-">> \o Slice(line, DigitsOf(line) + 2) ELSE line

DashedDocument == join([i \in 1..Len(SourceLines) |-> Dashed(SourceLines[i])])

HasNumberedLine == \E i \in 1..Len(SourceLines) : IsNumberBullet(SourceLines[i])

C14_NumberedAsBulleted ==
  (Done /\ HasNumberedLine) =>
    requests = markdownToDocsRequests(DashedDocument).requests

\* a line of two digits, dot, two spaces and a text, rendered as a bullet
C14_Witness ==
  /\ Done
  /\ \E i \in 1..Len(SourceLines) :
       /\ IsNumberBullet(SourceLines[i])
       /\ DigitsOf(SourceLines[i]) = 2
       /\ Len(SourceLines[i]) > 5
  /\ \E n \in 1..Len(ParagraphOps) : ParagraphOps[n].kind = "createParagraphBullets"
  /\ \A i \in 1..Len(InsertedText) : InsertedText[i] \notin Digits

(***************************************************************************)
(* C15: for the empty string and for input of blank lines only the call    *)
(* returns a script that does nothing: no text is inserted and there is no *)
(* formatting request.                                                     *)
(***************************************************************************)
C15_BlankInputNoOp ==
  (Done /\ ~HasNonBlankLine) =>
    /\ requests = <<>>
    /\ InsertedText = <<>>
    /\ FormatOps = <<>>
    /\ parsedLines = <<>>

\* two or more lines, all blank, one of them with a space
C15_Witness ==
  /\ Done
  /\ ~HasNonBlankLine
  /\ Len(SourceLines) >= 2
  /\ \E i \in 1..Len(markdown) : markdown[i] = " "
  /\ requests = <<>>

(***************************************************************************)
(* C16: for input without blank lines and without emphasis markers the     *)
(* inserted text is the input with a newline after each line, and the only *)
(* formatting requests are heading and bullet paragraph requests.          *)
(***************************************************************************)
NoBlankLine == \A i \in 1..Len(SourceLines) : ~IsBlank(SourceLines[i])

RECURSIVE EachWithNewline(_)
EachWithNewline(lines) ==
  IF lines = <<>> THEN <<>> ELSE Head(lines) \o <<"\n">> \o EachWithNewline(Tail(lines))

RECURSIVE DropSpace(_)
DropSpace(s) ==
  IF s # <<>> /\ Head(s) \in WhiteSpace THEN DropSpace(Tail(s)) ELSE s

\* the line without its heading or bullet prefix
ContentOf(line) ==
  IF HashesThenSpace(line, 1) THEN Slice(line, 3)
  ELSE IF HashesThenSpace(line, 2) THEN Slice(line, 4)
  ELSE IF HashesThenSpace(line, 3) THEN Slice(line, 5)
  ELSE IF IsMarkerBullet(line) THEN DropSpace(Slice(line, 2))
  ELSE IF IsNumberBullet(line) THEN DropSpace(Slice(line, DigitsOf(line) + 2))
  ELSE line

ContentsOf(lines) == [i \in 1..Len(lines) |-> ContentOf(lines[i])]

\* the claim as stated: the lines are inserted as they are
C16_InputWithNewlines ==
  (Done /\ NoBlankLine /\ NoAsterisk(markdown)) =>
    /\ InsertedText = EachWithNewline(SourceLines)
    /\ TextStyleOps = <<>>

\* each line is inserted without its heading or bullet prefix; a line without
\* prefix is inserted as it is
C16_ContentsWithNewlines ==
  (Done /\ NoBlankLine /\ NoAsterisk(markdown)) =>
    /\ InsertedText = EachWithNewline(ContentsOf(SourceLines))
    /\ TextStyleOps = <<>>
    /\ \A n \in 1..Len(FormatOps) : IsParagraphLevel(FormatOps[n])
    /\ \A i \in 1..Len(SourceLines) :
         ExpectedType(SourceLines[i]) = "paragraph" =>
           SubSeq(InsertedText, linePositions[i].start, linePositions[i].end - 1)
             = SourceLines[i]

\* a plain line and a bullet line with two spaces after the hyphen
C16_Witness ==
  /\ Done /\ NoBlankLine /\ NoAsterisk(markdown)
  /\ \E i \in 1..Len(SourceLines) :
       IsMarkerBullet(SourceLines[i]) /\ Len(ContentOf(SourceLines[i])) < Len(SourceLines[i]) - 2
  /\ InsertedText # EachWithNewline(SourceLines)
  /\ ParagraphOps # <<>>

(***************************************************************************)
(* C18: the classification is applied once per line: `# - x` is a          *)
(* Heading1 with inserted text `- x`, `- # x` is a Bullet with inserted    *)
(* text `# x`, and every line gives at most one paragraph-level request.   *)
(***************************************************************************)
C18_ClassifiedOnce ==
  Done =>
    /\ Len(RealLines) = Len(NonBlankLines)
    /\ \A i \in 1..Len(RealLines) :
         /\ RealLines[i].type = ExpectedType(NonBlankLines[i])
         /\ RealLines[i].rawText = ContentOf(NonBlankLines[i])
    /\ \A k \in 1..Len(linePositions) :
         Cardinality({n \in 1..Len(ParagraphOps) :
                        ParagraphOps[n].startIndex = linePositions[k].start}) <= 1
    /\ Len(ParagraphOps) <= Len(NonBlankLines)
    /\ markdown = HeadingOfBullet =>
         requests = << [kind |-> "insertText", index |-> 1, text |-> <<"-", " ", "x", "\n">>],
                       [kind |-> "updateParagraphStyle", startIndex |-> 1, endIndex |-> 4,
                        namedStyleType |-> "HEADING_1"] >>
    /\ markdown = BulletOfHeading =>
         requests = << [kind |-> "insertText", index |-> 1, text |-> <<"#", " ", "x", "\n">>],
                       [kind |-> "createParagraphBullets", startIndex |-> 1, endIndex |-> 4,
                        bulletPreset |-> "BULLET_DISC_CIRCLE_SQUARE"] >>

\* a line whose content after the prefix starts with a prefix of another kind
C18_Witness ==
  /\ Done
  /\ \E i \in 1..Len(RealLines) :
       /\ RealLines[i].type = "heading1"
       /\ ExpectedType(RealLines[i].rawText) = "bullet"
       /\ Len(RealLines[i].rawText) = 3
  /\ Len(ParagraphOps) = 1
(***************************************************************************)
(* The document the formatting requests are applied to: the inserted text  *)
(* followed by the newline an empty document holds, with a paragraph       *)
(* style and a bullet flag, a bold flag and an italic flag at every        *)
(* offset.  A paragraph is a run of offsets that ends at a newline.        *)
(***************************************************************************)
DocumentText(text) == text \o <<"\n">>

BlankDocument(text) ==
  [style |-> [i \in 1..(Len(text) + 1) |-> "NORMAL_TEXT"],
   bullet |-> [i \in 1..(Len(text) + 1) |-> FALSE],
   bold |-> [i \in 1..(Len(text) + 1) |-> FALSE],
   italic |-> [i \in 1..(Len(text) + 1) |-> FALSE]]

\* the first offset of the paragraph that holds offset i
ParagraphStart(text, i) ==
  Max({1} \cup {j + 1 : j \in {j \in 1..(i - 1) : DocumentText(text)[j] = "\n"}})

\* the offset of the newline that ends the paragraph that holds offset i
ParagraphEnd(text, i) ==
  Min({j \in i..(Len(text) + 1) : DocumentText(text)[j] = "\n"})

\* the offsets of [start, end)
InRange(i, op) == op.startIndex <= i /\ i < op.endIndex

\* the offsets of the paragraphs that overlap [start, end)
InParagraphsOf(text, i, op) ==
  \E j \in ParagraphStart(text, i)..ParagraphEnd(text, i) : InRange(j, op)

setParagraphStyle(text, doc, op) ==
  [doc EXCEPT !.style = [i \in DOMAIN doc.style |->
     IF InParagraphsOf(text, i, op) THEN op.namedStyleType ELSE doc.style[i]]]

setListBullet(text, doc, op) ==
  [doc EXCEPT !.bullet = [i \in DOMAIN doc.bullet |->
     InParagraphsOf(text, i, op) \/ doc.bullet[i]]]

setTextEmphasis(doc, op) ==
  IF op.fields = "bold"
  THEN [doc EXCEPT !.bold = [i \in DOMAIN doc.bold |-> InRange(i, op) \/ doc.bold[i]]]
  ELSE [doc EXCEPT !.italic = [i \in DOMAIN doc.italic |-> InRange(i, op) \/ doc.italic[i]]]

applyFormat(text, doc, op) ==
  IF op.kind = "updateParagraphStyle" THEN setParagraphStyle(text, doc, op)
  ELSE IF op.kind = "createParagraphBullets" THEN setListBullet(text, doc, op)
  ELSE setTextEmphasis(doc, op)

\* the documents reached by applying the requests ops[i], i in S, to doc in
\* every order
RECURSIVE Outcomes(_, _, _, _)
Outcomes(text, ops, S, doc) ==
  IF S = {} THEN {doc}
  ELSE UNION {Outcomes(text, ops, S \ {i}, applyFormat(text, doc, ops[i])) : i \in S}

(***************************************************************************)
(* C17: the formatting requests of one script commute: applied after the   *)
(* insert in any order they give the same document, with the same          *)
(* paragraph style, bullet flag, bold flag and italic flag at every        *)
(* offset.                                                                 *)
(***************************************************************************)
C17_FormatOpsCommute ==
  Done =>
    Cardinality(Outcomes(InsertedText, FormatOps, 1..Len(FormatOps),
                         BlankDocument(InsertedText))) = 1

\* two headings of different styles and a bold span in one script
C17_Witness ==
  /\ Done
  /\ Len(FormatOps) = 3
  /\ \E n1, n2 \in 1..Len(ParagraphOps) :
       /\ ParagraphOps[n1].kind = "updateParagraphStyle"
       /\ ParagraphOps[n2].kind = "updateParagraphStyle"
       /\ ParagraphOps[n1].namedStyleType # ParagraphOps[n2].namedStyleType
  /\ Len(TextStyleOps) = 1
(***************************************************************************)
(* C20: docs-update replaces all content: when updateDoc has returned, for *)
(* a document of any length before, the body is the new content only,      *)
(* followed by the newline every body ends with; none of the text of       *)
(* before remains.  This holds for plain and for markdown updates.         *)
(***************************************************************************)
Returned == updatePc = "returned"

\* the text an update is to leave in the document
NewText ==
  IF optionsMarkdown THEN BodyOf(parseLoop(split(updateContent), <<>>, FALSE)) ELSE updateContent

C20_UpdateReplacesAll ==
  Returned =>
    /\ body = NewText \o <<"\n">>
    /\ \A i \in 1..Len(body) : body[i] = "b" => \E j \in 1..Len(updateContent) : updateContent[j] = "b"

\* a markdown update with text in it of a document that held two characters
C20_Witness ==
  /\ Returned
  /\ optionsMarkdown
  /\ Len(batchUpdates) = 2
  /\ batchUpdates[1] = <<[kind |-> "deleteContentRange", startIndex |-> 1, endIndex |-> 3]>>
  /\ Len(batchUpdates[2]) >= 2
  /\ Len(body) > 1
(***************************************************************************)
(* C23: updateDoc reads the length of the document first, sends the delete *)
(* request (range [1, endIndex - 1), only when endIndex > 2) in a batch of *)
(* its own and waits for it before it sends the insert batch, so that the  *)
(* offsets of a markdown script are applied to an empty body; the insert   *)
(* batch is sent whether or not a delete was needed.                       *)
(***************************************************************************)
DeleteBatch == <<[kind |-> "deleteContentRange", startIndex |-> 1, endIndex |-> endIndex - 1]>>

IsDelete(r) == r.kind = "deleteContentRange"

\* the batches sent before the insert batch
BatchesBeforeInsert == IF endIndex > 2 THEN <<DeleteBatch>> ELSE <<>>

C23_DeleteThenInsert ==
  /\ updatePc = "delete" => batchUpdates = <<>> /\ endIndex = Len(body) + 1
  /\ updatePc = "insert" =>
       /\ batchUpdates = BatchesBeforeInsert
       /\ body = <<"\n">>
  /\ updatePc \in {"returned", "thrown"} =>
       /\ Len(batchUpdates) = Len(BatchesBeforeInsert) + 1
       /\ SubSeq(batchUpdates, 1, Len(BatchesBeforeInsert)) = BatchesBeforeInsert
       /\ LET sent == batchUpdates[Len(batchUpdates)]
          IN /\ \A i \in 1..Len(sent) : ~IsDelete(sent[i])
             /\ updatePc = "returned" => body = applyBatch(<<"\n">>, sent)
             /\ (optionsMarkdown /\ updatePc = "returned") =>
                  \A i \in 1..Len(sent) :
                    sent[i].kind # "insertText" =>
                      /\ 1 <= sent[i].startIndex
                      /\ sent[i].endIndex <= Len(body)

\* a markdown script with formatting sent after the delete of one character
C23_Witness ==
  /\ updatePc = "returned"
  /\ optionsMarkdown
  /\ endIndex = 3
  /\ Len(batchUpdates) = 2
  /\ batchUpdates[1] = <<[kind |-> "deleteContentRange", startIndex |-> 1, endIndex |-> 2]>>
  /\ \E i \in 1..Len(batchUpdates[2]) : batchUpdates[2][i].kind = "updateTextStyle"

(***************************************************************************)
(* C24: the formatting requests are added in reverse order: the requests   *)
(* of a later line (higher offsets) are listed before those of an earlier  *)
(* line.                                                                   *)
(***************************************************************************)
\* the line whose recorded [start, end] holds the start of the request
LineOfOp(op) ==
  CHOOSE k \in 1..Len(linePositions) :
    linePositions[k].start <= op.startIndex /\ op.startIndex <= linePositions[k].end

C24_ReverseOrder ==
  Done =>
    \A n1, n2 \in 1..Len(FormatOps) :
      n1 < n2 => LineOfOp(FormatOps[n1]) >= LineOfOp(FormatOps[n2])

commands ==
  {"folders-list", "files-search", "files-rename", "files-delete", "files-comments",
   "docs-read", "docs-create", "docs-update", "docs-revisions",
   "sheets-read", "sheets-write", "sheets-append"}

\* keys every object literal inherits from Object.prototype; their values are
\* truthy and have no main
ObjectPrototypeKeys == {"constructor", "toString", "valueOf", "hasOwnProperty", "__proto__"}

\* the names of the commands before 2.0
RenamedCommands ==
  {"list", "search", "rename", "delete", "comments", "read", "create", "update", "revisions"}

\* commands[command] with the names of before 2.0 kept as aliases
lookupWithAliases(command) ==
  IF command \in commands \cup RenamedCommands THEN "entry"
  ELSE IF command \in ObjectPrototypeKeys THEN "inherited"
  ELSE "undefined"

\* commands[command]: an entry of the table, an inherited property or undefined
lookup(command) ==
  IF command \in commands THEN "entry"
  ELSE IF command \in ObjectPrototypeKeys THEN "inherited"
  ELSE "undefined"

\* !command || command === 'help' || command === '--help' || command === '-h'
wantsHelp(args) == args = <<>> \/ args[1] \in {"", "help", "--help", "-h"}

\* how a handler that was called settles: it returns, it throws an error whose
\* message names the default credentials, it throws another error, or it
\* ends the process itself with code 1 (its usage message)
HandlerOutcomes == {"returns", "throws credentials", "throws", "exits"}

CommandNames ==
  commands \cup RenamedCommands \cup ObjectPrototypeKeys
    \cup {"", "help", "--help", "-h", "docs", "Docs-Read"}

ArgvInputs ==
  {<<>>} \cup {<<c>> : c \in CommandNames} \cup {<<c, "1abc">> : c \in CommandNames}

InitCli ==
  /\ IdleExceptCli
  /\ argv \in ArgvInputs
  /\ cliPc = "main"
  /\ calledHandler = "none"
  /\ helpShown = FALSE
  /\ stderr = "none"
  /\ exitCode = -1

\* process.exit(code) after an optional message
Exit(message, code) ==
  /\ stderr' = message
  /\ exitCode' = code
  /\ cliPc' = "exited"

\* the statements of main after the help test, for commands[command] = cmd
Dispatch(cmd) ==
  IF cmd = "undefined"
  THEN Exit("Unknown command", 1) /\ UNCHANGED <<calledHandler, helpShown>>
  ELSE IF cmd = "entry"
  THEN /\ calledHandler' = argv[1]
       /\ cliPc' = "awaiting"
       /\ UNCHANGED <<helpShown, stderr, exitCode>>
  ELSE \* cmd.main is not a function: the call throws inside the try
       Exit("Error", 1) /\ UNCHANGED <<calledHandler, helpShown>>

\* main up to its await
Main ==
  /\ cliPc = "main"
  /\ IF wantsHelp(argv)
     THEN /\ helpShown' = TRUE
          /\ exitCode' = 0
          /\ cliPc' = "exited"
          /\ UNCHANGED <<calledHandler, stderr>>
     ELSE Dispatch(lookup(argv[1]))
  /\ UNCHANGED argv
  /\ UNCHANGED notCli

\* main after its await: the handler has settled
Settled(outcome) ==
  IF outcome = "returns" THEN Exit("none", 0)
  ELSE IF outcome = "throws credentials" THEN Exit("Not authenticated", 1)
  ELSE IF outcome = "throws" THEN Exit("Error", 1)
  ELSE Exit("Usage", 1)

HandlerSettles ==
  /\ cliPc = "awaiting"
  /\ \E outcome \in HandlerOutcomes : Settled(outcome)
  /\ UNCHANGED <<argv, calledHandler, helpShown>>
  /\ UNCHANGED notCli

NextCli == Main \/ HandlerSettles

SpecCli == InitCli /\ [][NextCli]_vars

(***************************************************************************)
(* C21: the dispatcher accepts exactly the twelve namespaced command       *)
(* names.  With no command (none, or an empty one) or with help, --help or *)
(* -h it prints the help and exits with code 0 and runs no handler; with   *)
(* any other name, the names of before 2.0 included, it runs no handler    *)
(* and exits with code 1; when a handler throws the process exits with     *)
(* code 1.                                                                 *)
(***************************************************************************)
TwelveNames ==
  {"folders-list", "files-search", "files-rename", "files-delete", "files-comments",
   "docs-read", "docs-create", "docs-update", "docs-revisions",
   "sheets-read", "sheets-write", "sheets-append"}

NamesBeforeTwo ==
  {"list", "search", "rename", "delete", "comments", "read", "create", "update", "revisions"}

AsksHelp == argv = <<>> \/ argv[1] = "" \/ argv[1] \in {"help", "--help", "-h"}

Callers == 1..NumCallers

\* if (oauth2Client) with the test always failing
cachedNever(client) == FALSE

\* if (oauth2Client)
cached(client) == client # 0

InitAuth ==
  /\ IdleExceptAuth
  /\ oauth2Client = 0
  /\ clientCredentials = <<>>
  /\ tokenFile \in {"none", "expired", "valid"}
  /\ constructed = 0
  /\ refreshes = 0
  /\ consentFlows = 0
  /\ authPc = [c \in Callers |-> "start"]
  /\ received = [c \in Callers |-> 0]
  /\ credentialsAtReturn = [c \in Callers |-> "none"]

\* return oauth2Client
ReturnClient(c, client, credentials) ==
  /\ authPc' = [authPc EXCEPT ![c] = "returned"]
  /\ received' = [received EXCEPT ![c] = client]
  /\ credentialsAtReturn' = [credentialsAtReturn EXCEPT ![c] = credentials]

\* oauth2Client = new OAuth2Client(...) and the statements up to the first
\* await or return, with the token that loadToken found
Construct(c, client, token) ==
  /\ constructed' = client
  /\ oauth2Client' = client
  /\ clientCredentials' = Append(clientCredentials, token)
  /\ IF token = "valid"
     THEN ReturnClient(c, client, token) /\ UNCHANGED <<refreshes, consentFlows>>
     ELSE IF token = "expired"
     THEN /\ refreshes' = refreshes + 1
          /\ authPc' = [authPc EXCEPT ![c] = "refreshing"]
          /\ UNCHANGED <<consentFlows, received, credentialsAtReturn>>
     ELSE /\ consentFlows' = consentFlows + 1
          /\ authPc' = [authPc EXCEPT ![c] = "consenting"]
          /\ UNCHANGED <<refreshes, received, credentialsAtReturn>>

\* getAuth from its entry to its first await or return
Enter(c, isCached) ==
  IF isCached
  THEN /\ ReturnClient(c, oauth2Client, clientCredentials[oauth2Client])
       /\ UNCHANGED <<oauth2Client, clientCredentials, constructed, refreshes, consentFlows>>
  ELSE Construct(c, constructed + 1, tokenFile)

GetAuth(c) ==
  /\ authPc[c] = "start"
  /\ Enter(c, cached(oauth2Client))
  /\ UNCHANGED tokenFile
  /\ UNCHANGED notAuth

\* saveToken(t); oauth2Client.setCredentials(t); return oauth2Client
SaveSetReturn(c) ==
  /\ tokenFile' = "valid"
  /\ clientCredentials' = [clientCredentials EXCEPT ![oauth2Client] = "valid"]
  /\ ReturnClient(c, oauth2Client, "valid")

\* an await that rejects: getAuth throws
Throws(c) ==
  /\ authPc' = [authPc EXCEPT ![c] = "threw"]
  /\ UNCHANGED <<tokenFile, clientCredentials, received, credentialsAtReturn>>

\* await oauth2Client.refreshAccessToken() settles
RefreshSettles(c) ==
  /\ authPc[c] = "refreshing"
  /\ SaveSetReturn(c) \/ Throws(c)
  /\ UNCHANGED <<oauth2Client, constructed, refreshes, consentFlows>>
  /\ UNCHANGED notAuth

\* await getAuthCodeViaServer(authUrl) settles: the code, or the timeout
CodeSettles(c) ==
  /\ authPc[c] = "consenting"
  /\ \/ /\ authPc' = [authPc EXCEPT ![c] = "exchanging"]
        /\ UNCHANGED <<tokenFile, clientCredentials, received, credentialsAtReturn>>
     \/ Throws(c)
  /\ UNCHANGED <<oauth2Client, constructed, refreshes, consentFlows>>
  /\ UNCHANGED notAuth

\* await oauth2Client.getToken(code) settles
TokenSettles(c) ==
  /\ authPc[c] = "exchanging"
  /\ SaveSetReturn(c) \/ Throws(c)
  /\ UNCHANGED <<oauth2Client, constructed, refreshes, consentFlows>>
  /\ UNCHANGED notAuth

NextAuth ==
  \E c \in Callers : GetAuth(c) \/ RefreshSettles(c) \/ CodeSettles(c) \/ TokenSettles(c)

SpecAuth == InitAuth /\ [][NextAuth]_vars

(***************************************************************************)
(* C29: getAuth is a process-wide singleton under concurrent callers: in   *)
(* every interleaving at most one client object is constructed, at most    *)
(* one consent flow or token refresh is started, and every caller          *)
(* receives the same client object.                                        *)
(***************************************************************************)
C29_Singleton ==
  /\ constructed <= 1
  /\ refreshes + consentFlows <= 1
  /\ oauth2Client \in {0, 1}
  /\ \A c \in Callers :
       authPc[c] \in {"returned", "refreshing", "consenting", "exchanging", "threw"}
         => oauth2Client = 1
  /\ \A c \in Callers : authPc[c] = "returned" => received[c] = 1

\* every caller has the one client, one of them after a consent flow that the
\* others did not wait for
C29_Witness ==
  /\ \A c \in Callers : authPc[c] = "returned" /\ received[c] = 1
  /\ consentFlows = 1
  /\ constructed = 1
  /\ \E c \in Callers : credentialsAtReturn[c] = "none"

(***************************************************************************)
(* C30: getAuth hands the client to a caller only when the client holds    *)
(* usable credentials: a saved token that is not expired, a refreshed      *)
(* token, or the tokens of a completed consent flow.                       *)
(***************************************************************************)
C30_ClientHasCredentials ==
  \A c \in Callers : authPc[c] = "returned" => credentialsAtReturn[c] = "valid"
(***************************************************************************)
(* revisions: simpleDiff and the diff mode of main.  The two revisions are *)
(* fetched by two getRevisionContent calls under Promise.all; the client   *)
(* is taken to be authenticated already.                                   *)
(***************************************************************************)
\* the lines of from that are not blank and, trimmed, are no line of other
unmatched(from, other) ==
  LET Keep(line) ==
        trim(line) # <<>> /\ \A i \in 1..Len(other) : trim(other[i]) # trim(line)
  IN SelectSeq(from, Keep)

\* changes.push(sign + ' ' + line) for each line
marked(sign, lines) == [i \in 1..Len(lines) |-> <<sign, " ">> \o lines[i]]

diffOfLines(oldLines, newLines) ==
  join(marked("-", unmatched(oldLines, newLines)) \o marked("+", unmatched(newLines, oldLines)))

simpleDiff(oldText, newText) == diffOfLines(split(oldText), split(newText))

\* the place of the result of call i in the array, taken by order of arrival
slotOfArrival(i, order) == Len(order) + 1

\* Promise.all: the place of the result of call i in the array
slot(i, order) == i

RevisionTexts == Strs(RevisionAlphabet, MaxRevision)

InitDiff ==
  /\ IdleExceptDiff
  /\ revisionText \in [1..2 -> RevisionTexts]
  /\ diffPc = "start"
  /\ fetchPc = [i \in 1..2 |-> "idle"]
  /\ contents = [i \in 1..2 |-> <<>>]
  /\ settledOrder = <<>>
  /\ printedKind = "none"
  /\ printedDiff = <<>>

\* Promise.all([getRevisionContent(fileId, rev1), getRevisionContent(fileId, rev2)]):
\* both calls are made before main awaits
StartDiff ==
  /\ diffPc = "start"
  /\ fetchPc' = [i \in 1..2 |-> "revisions.get"]
  /\ diffPc' = "awaiting"
  /\ UNCHANGED <<revisionText, contents, settledOrder, printedKind, printedDiff>>
  /\ UNCHANGED notDiff

\* the await that follows a position of getRevisionContent
afterAwait(at) ==
  IF at = "revisions.get" THEN "getAccessToken"
  ELSE IF at = "getAccessToken" THEN "fetch"
  ELSE "text"

\* an await of call i is fulfilled and the call goes on to its next await
FetchProceeds(i) ==
  /\ diffPc = "awaiting"
  /\ fetchPc[i] \in {"revisions.get", "getAccessToken", "fetch"}
  /\ fetchPc' = [fetchPc EXCEPT ![i] = afterAwait(fetchPc[i])]
  /\ UNCHANGED <<revisionText, diffPc, contents, settledOrder, printedKind, printedDiff>>
  /\ UNCHANGED notDiff

\* return response.text(): call i is fulfilled with the text of its revision
FetchReturns(i) ==
  /\ diffPc = "awaiting"
  /\ fetchPc[i] = "text"
  /\ fetchPc' = [fetchPc EXCEPT ![i] = "fulfilled"]
  /\ contents' = [contents EXCEPT ![slot(i, settledOrder)] = revisionText[i]]
  /\ settledOrder' = Append(settledOrder, i)
  /\ UNCHANGED <<revisionText, diffPc, printedKind, printedDiff>>
  /\ UNCHANGED notDiff

\* an await of call i is rejected, there is no export link, or the response
\* is not ok: call i throws
FetchThrows(i) ==
  /\ diffPc = "awaiting"
  /\ fetchPc[i] \in {"revisions.get", "getAccessToken", "fetch", "text"}
  /\ fetchPc' = [fetchPc EXCEPT ![i] = "rejected"]
  /\ settledOrder' = Append(settledOrder, i)
  /\ UNCHANGED <<revisionText, diffPc, contents, printedKind, printedDiff>>
  /\ UNCHANGED notDiff

\* console.log of the diff, or of the message when diff.trim() is empty
PrintDiff(diff) ==
  /\ printedKind' = IF trim(diff) = <<>> THEN "No text differences found." ELSE "Changes:"
  /\ printedDiff' = IF trim(diff) = <<>> THEN <<>> ELSE diff

\* Promise.all is fulfilled: main goes on after its await
DiffResolves ==
  /\ diffPc = "awaiting"
  /\ \A i \in 1..2 : fetchPc[i] = "fulfilled"
  /\ PrintDiff(simpleDiff(contents[1], contents[2]))
  /\ diffPc' = "returned"
  /\ UNCHANGED <<revisionText, fetchPc, contents, settledOrder>>
  /\ UNCHANGED notDiff

\* Promise.all is rejected: main throws at its await
DiffRejects ==
  /\ diffPc = "awaiting"
  /\ \E i \in 1..2 : fetchPc[i] = "rejected"
  /\ diffPc' = "threw"
  /\ UNCHANGED <<revisionText, fetchPc, contents, settledOrder, printedKind, printedDiff>>
  /\ UNCHANGED notDiff

NextDiff ==
  \/ StartDiff
  \/ \E i \in 1..2 : FetchProceeds(i) \/ FetchReturns(i) \/ FetchThrows(i)
  \/ DiffResolves
  \/ DiffRejects

SpecDiff == InitDiff /\ [][NextDiff]_vars

(***************************************************************************)
(* C22: in the revision diff the two fetches run in parallel: both are     *)
(* started together and neither waits for the other; the diff is computed  *)
(* only after both have completed; what is printed is the same for either  *)
(* order of completion; when a fetch fails no diff is printed.             *)
(***************************************************************************)
NewlineOffsetsOf(text) == {i \in 1..Len(text) : text[i] = "\n"}

InFlight(i) == fetchPc[i] \in {"revisions.get", "getAccessToken", "fetch", "text"}

\* the lines of text a that are not blank and have no equal in text b
OnlyIn(a, b) ==
  {i \in 1..Len(split(a)) :
     /\ ~IsBlank(split(a)[i])
     /\ \A j \in 1..Len(split(b)) : trim(split(b)[j]) # trim(split(a)[i])}

C22_ParallelFetches ==
  /\ (fetchPc[1] = "idle") <=> (fetchPc[2] = "idle")
  /\ \A i \in 1..2 :
       (diffPc = "awaiting" /\ InFlight(i)) => ENABLED (FetchProceeds(i) \/ FetchReturns(i))
  /\ printedKind # "none" =>
       /\ diffPc = "returned"
       /\ \A i \in 1..2 : fetchPc[i] = "fulfilled" /\ contents[i] = revisionText[i]
       /\ printedDiff = simpleDiff(revisionText[1], revisionText[2])
            \/ (printedDiff = <<>> /\ printedKind = "No text differences found.")
       /\ (printedKind = "No text differences found.") <=>
            (OnlyIn(revisionText[1], revisionText[2]) = {}
               /\ OnlyIn(revisionText[2], revisionText[1]) = {})
       /\ printedKind = "Changes:" =>
            Cardinality(NewlineOffsetsOf(printedDiff)) + 1
              = Cardinality(OnlyIn(revisionText[1], revisionText[2]))
                  + Cardinality(OnlyIn(revisionText[2], revisionText[1]))
  /\ (\E i \in 1..2 : fetchPc[i] = "rejected") => printedKind = "none" /\ diffPc # "returned"

\* a diff with a removed and an added line, printed after the second fetch
\* completed before the first
C22_Witness ==
  /\ diffPc = "returned"
  /\ settledOrder = <<2, 1>>
  /\ printedKind = "Changes:"
  /\ printedDiff = <<"-", " ", "a", "\n", "+", " ", "b">>
(***************************************************************************)
(* comments: resolveComment.  The service answers a read with the fields   *)
(* of the comment, a false flag possibly left out; an update by a user who *)
(* may not resolve the comment changes nothing, silently or with an error. *)
(***************************************************************************)
CommentContents == {"", "fix this", "typo"}

\* the resolved field of a response for a comment with flag resolved
ResolvedFields(resolved) == IF resolved THEN {"true"} ELSE {"false", "undefined"}

\* the content field of a response
ContentFields(content) == IF content = "" THEN {"", "undefined"} ELSE {content}

\* existing.data.content || ''
orEmpty(content) == IF content = "undefined" THEN "" ELSE content

\* the return value taken for granted after the update
verdictAssumed(after) == "true"

\* after.data.resolved === true
verdict(after) == IF after = "true" THEN "true" ELSE "false"

InitResolve ==
  /\ IdleExceptResolve
  /\ commentResolved \in BOOLEAN
  /\ commentContent \in CommentContents
  /\ mayResolve \in BOOLEAN
  /\ resolvePc = "comments.get"
  /\ existing = [resolved |-> "undefined", content |-> "undefined"]
  /\ driveCalls = <<>>
  /\ resolveResult = "none"

\* return value
ReturnResolved(value) ==
  /\ resolveResult' = value
  /\ resolvePc' = "returned"

\* a call to the service is rejected: resolveComment throws
CallThrows(call) ==
  /\ driveCalls' = Append(driveCalls, call)
  /\ resolvePc' = "threw"
  /\ UNCHANGED <<commentResolved, commentContent, existing, resolveResult>>

\* const existing = await drive.comments.get(...); if (existing.data.resolved) return true
GotExisting(response) ==
  /\ driveCalls' = Append(driveCalls, "comments.get")
  /\ existing' = response
  /\ IF response.resolved = "true"
     THEN ReturnResolved("true")
     ELSE resolvePc' = "comments.update" /\ UNCHANGED resolveResult
  /\ UNCHANGED <<commentResolved, commentContent>>

GetExisting ==
  /\ resolvePc = "comments.get"
  /\ \/ \E r \in ResolvedFields(commentResolved), t \in ContentFields(commentContent) :
          GotExisting([resolved |-> r, content |-> t])
     \/ CallThrows("comments.get")
  /\ UNCHANGED mayResolve
  /\ UNCHANGED notResolve

\* await drive.comments.update(...) with the content read and resolved: true
UpdateComment ==
  /\ resolvePc = "comments.update"
  /\ \/ /\ mayResolve
        /\ commentResolved' = TRUE
        /\ commentContent' = orEmpty(existing.content)
        /\ driveCalls' = Append(driveCalls, "comments.update")
        /\ resolvePc' = "verify"
        /\ UNCHANGED <<existing, resolveResult>>
     \/ /\ ~mayResolve
        /\ driveCalls' = Append(driveCalls, "comments.update")
        /\ resolvePc' = "verify"
        /\ UNCHANGED <<commentResolved, commentContent, existing, resolveResult>>
     \/ CallThrows("comments.update")
  /\ UNCHANGED mayResolve
  /\ UNCHANGED notResolve

\* const after = await drive.comments.get(...); return after.data.resolved === true
GotAfter(after) ==
  /\ driveCalls' = Append(driveCalls, "comments.get")
  /\ ReturnResolved(verdict(after))
  /\ UNCHANGED <<commentResolved, commentContent, existing>>

Verify ==
  /\ resolvePc = "verify"
  /\ \/ \E r \in ResolvedFields(commentResolved) : GotAfter(r)
     \/ CallThrows("comments.get")
  /\ UNCHANGED mayResolve
  /\ UNCHANGED notResolve

NextResolve == GetExisting \/ UpdateComment \/ Verify

SpecResolve == InitResolve /\ [][NextResolve]_vars

(***************************************************************************)
(* C25: resolveComment reads the comment first; when it is resolved        *)
(* already it returns true and sends no update; otherwise it sends exactly *)
(* one update and reads the comment again, and returns true exactly when   *)
(* that last read shows the comment resolved: an update that silently had  *)
(* no effect is reported as false, never as success.                       *)
(***************************************************************************)
Updates == SelectSeq(driveCalls, LAMBDA call : call = "comments.update")

C25_ResolveVerified ==
  /\ driveCalls # <<>> => driveCalls[1] = "comments.get"
  /\ Len(Updates) <= 1
  /\ resolvePc = "returned" =>
       /\ resolveResult \in {"true", "false"}
       /\ existing.resolved = "true" =>
            driveCalls = <<"comments.get">> /\ resolveResult = "true"
       /\ existing.resolved # "true" =>
            /\ driveCalls = <<"comments.get", "comments.update", "comments.get">>
            /\ (resolveResult = "true") <=> commentResolved
            /\ ~mayResolve => resolveResult = "false"
       /\ resolveResult = "true" => commentResolved
  /\ resolvePc # "returned" => resolveResult = "none"

\* an update without effect, found out by the second read and reported as false
C25_Witness ==
  /\ resolvePc = "returned"
  /\ ~mayResolve
  /\ driveCalls = <<"comments.get", "comments.update", "comments.get">>
  /\ ~commentResolved
  /\ resolveResult = "false"

(***************************************************************************)
(* C27: updateDoc never submits a batch with no request: for every content *)
(* its handler accepts (any non-empty string, whitespace-only included),   *)
(* plain or markdown, each batch sent holds a request and the insert batch *)
(* holds the insertText request.                                           *)
(***************************************************************************)
\* the handler of docs-update rejects !content: the empty string only
Accepted == updateContent # <<>>

C27_NoEmptyBatch ==
  Accepted =>
    /\ \A k \in 1..Len(batchUpdates) : batchUpdates[k] # <<>>
    /\ updatePc \in {"returned", "thrown"} =>
         \E i \in 1..Len(batchUpdates[Len(batchUpdates)]) :
           batchUpdates[Len(batchUpdates)][i].kind = "insertText"

(***************************************************************************)
(* createDocInPath, findFolderByPath and createDoc.  A folder of the drive *)
(* is the sequence of the names from the root to it, and that sequence is  *)
(* its id: the root is the empty sequence.  A folder id that may be null   *)
(* is a sequence of at most one id, null being the empty one.              *)
(***************************************************************************)
FolderNames == {<<"a">>, <<"b">>}
FolderUniverse ==
  {<<n>> : n \in FolderNames} \cup {<<n, m>> : n \in FolderNames, m \in FolderNames}
\* the drives: every folder but those of the root has its parent
Drives ==
  {T \in SUBSET FolderUniverse : \A f \in T : Len(f) = 2 => <<f[1]>> \in T}
FolderPaths == Strs(PathAlphabet, MaxPath)
CreateContents == {<<>>, <<" ">>, <<"a">>, <<"#", " ", "a">>}

\* String.prototype.split('/')
RECURSIVE splitSlash(_)
splitSlash(s) ==
  LET at == {i \in 1..Len(s) : s[i] = "/"}
  IN IF at = {} THEN <<s>>
     ELSE <<SubSeq(s, 1, Min(at) - 1)>> \o splitSlash(Slice(s, Min(at) + 1))

\* path.split('/').filter(p => p.length > 0)
pathParts(path) == SelectSeq(splitSlash(path), LAMBDA p : Len(p) > 0)

\* response.data.files of drive.files.list with pageSize 1: the folders of
\* that name in that parent
filesList(drive, parent, name) ==
  IF Append(parent, name) \in drive THEN <<Append(parent, name)>> ELSE <<>>

\* !folder?.id of the first file of a response
missing(files) == files = <<>>

\* the test of createDocInPath left out
folderNotFoundNever(folderId) == FALSE

\* if (!folderId) of createDocInPath
folderNotFound(folderId) == folderId = <<>>

\* options.content && options.content.trim()
hasContent(options) == options.content # <<>> /\ trim(options.content) # <<>>

\* the requests of the content batch of createDoc
contentRequests(options) == insertRequestsOf(options.content, options.markdown)

\* a request about the document, with what it carries
callOf(kind, options) ==
  [kind |-> kind,
   folder |-> IF kind = "files.update" THEN options.folderId ELSE <<>>,
   requests |-> IF kind = "documents.batchUpdate" THEN contentRequests(options)
                ELSE <<>>]

InitCreate ==
  /\ IdleExceptCreate
  /\ folders \in Drives
  /\ folderPath \in FolderPaths
  /\ createOptions \in [content : CreateContents, folderId : {<<>>}, markdown : BOOLEAN]
  /\ createPc = "findFolderByPath"
  /\ parts = <<>>
  /\ currentFolderId = <<>>
  /\ listQueries = <<>>
  /\ documentCalls = <<>>
  /\ createError = "none"

\* findFolderByPath returns folderId to createDocInPath, which throws or
\* calls createDoc(title, { content, folderId, markdown })
Resolved(folderId) ==
  IF folderNotFound(folderId)
  THEN /\ createPc' = "thrown"
       /\ createError' = "Folder not found"
       /\ UNCHANGED createOptions
  ELSE /\ createPc' = "documents.create"
       /\ createOptions' = [createOptions EXCEPT !.folderId = folderId]
       /\ UNCHANGED createError

\* findFolderByPath up to its first request: a path without a name is the root
FindFolderByPath ==
  /\ createPc = "findFolderByPath"
  /\ parts' = pathParts(folderPath)
  /\ currentFolderId' = <<>>
  /\ IF parts' = <<>>
     THEN Resolved(<<currentFolderId'>>)
     ELSE createPc' = "files.list" /\ UNCHANGED <<createOptions, createError>>
  /\ UNCHANGED <<folders, folderPath, listQueries, documentCalls>>
  /\ UNCHANGED notCreate

\* one turn of the loop: await drive.files.list(...), then return null, go on
\* with the next name, or return the folder of the last name
ListFiles ==
  /\ createPc = "files.list"
  /\ listQueries' = Append(listQueries, [parent |-> currentFolderId, name |-> Head(parts)])
  /\ LET files == filesList(folders, currentFolderId, Head(parts))
     IN IF missing(files)
        THEN Resolved(<<>>) /\ UNCHANGED <<parts, currentFolderId>>
        ELSE /\ currentFolderId' = files[1]
             /\ parts' = Tail(parts)
             /\ IF parts' = <<>>
                THEN Resolved(<<currentFolderId'>>)
                ELSE UNCHANGED <<createPc, createOptions, createError>>
  /\ UNCHANGED <<folders, folderPath, documentCalls>>
  /\ UNCHANGED notCreate

\* the next position of createDoc after the document is in its folder
afterMove(options) == IF hasContent(options) THEN "documents.batchUpdate" ELSE "returned"

\* await docs.documents.create({ requestBody: { title } })
CreateDocument ==
  /\ createPc = "documents.create"
  /\ documentCalls' = Append(documentCalls, callOf(createPc, createOptions))
  /\ createPc' = IF createOptions.folderId # <<>> THEN "files.update"
                 ELSE afterMove(createOptions)
  /\ UNCHANGED <<folders, folderPath, createOptions, parts, currentFolderId,
                 listQueries, createError>>
  /\ UNCHANGED notCreate

\* await drive.files.update({ addParents: options.folderId, removeParents: 'root' })
MoveDocument ==
  /\ createPc = "files.update"
  /\ documentCalls' = Append(documentCalls, callOf(createPc, createOptions))
  /\ createPc' = afterMove(createOptions)
  /\ UNCHANGED <<folders, folderPath, createOptions, parts, currentFolderId,
                 listQueries, createError>>
  /\ UNCHANGED notCreate

\* await docs.documents.batchUpdate({ requestBody: { requests } })
WriteContent ==
  /\ createPc = "documents.batchUpdate"
  /\ documentCalls' = Append(documentCalls, callOf(createPc, createOptions))
  /\ createPc' = "returned"
  /\ UNCHANGED <<folders, folderPath, createOptions, parts, currentFolderId,
                 listQueries, createError>>
  /\ UNCHANGED notCreate

\* a request to the service that fails: the await throws, and neither
\* function catches
RequestRejects ==
  /\ createPc \in {"files.list", "documents.create", "files.update", "documents.batchUpdate"}
  /\ IF createPc = "files.list"
     THEN /\ listQueries' = Append(listQueries, [parent |-> currentFolderId, name |-> Head(parts)])
          /\ UNCHANGED documentCalls
     ELSE /\ documentCalls' = Append(documentCalls, callOf(createPc, createOptions))
          /\ UNCHANGED listQueries
  /\ createPc' = "thrown"
  /\ createError' = "rejected"
  /\ UNCHANGED <<folders, folderPath, createOptions, parts, currentFolderId>>
  /\ UNCHANGED notCreate

NextCreate ==
  FindFolderByPath \/ ListFiles \/ CreateDocument \/ MoveDocument \/ WriteContent
    \/ RequestRejects

SpecCreate == InitCreate /\ [][NextCreate]_vars

(***************************************************************************)
(* C28: createDocInPath resolves the folder path before anything else:     *)
(* when a component of the path does not exist it throws Folder not found  *)
(* and no document has been created, moved or written, and                 *)
(* findFolderByPath stops at the first missing component without a query   *)
(* for a later one.                                                        *)
(***************************************************************************)
\* the positions of the path where a name begins
ComponentStarts ==
  {i \in 1..Len(folderPath) :
     folderPath[i] # "/" /\ (i = 1 \/ folderPath[i - 1] = "/")}

\* the name that begins at position i
ComponentAt(i) ==
  SubSeq(folderPath, i,
    CHOOSE j \in i..Len(folderPath) :
      /\ \A k \in i..j : folderPath[k] # "/"
      /\ j = Len(folderPath) \/ folderPath[j + 1] = "/")

\* the names of the path, in order
Components ==
  [n \in 1..Cardinality(ComponentStarts) |->
     ComponentAt(CHOOSE i \in ComponentStarts :
                   Cardinality({j \in ComponentStarts : j < i}) = n - 1)]

\* the folder the first k names lead to
FolderAt(k) == SubSeq(Components, 1, k)

\* the components that do not exist
MissingComponents == {k \in 1..Len(Components) : FolderAt(k) \notin folders}

\* the number of queries that resolve the path or find it missing
QueriesNeeded ==
  IF MissingComponents = {} THEN Len(Components) ELSE Min(MissingComponents)

C28_FolderResolvedFirst ==
  /\ Len(listQueries) <= QueriesNeeded
  /\ \A k \in 1..Len(listQueries) :
       listQueries[k] = [parent |-> FolderAt(k - 1), name |-> Components[k]]
  /\ Len(listQueries) < QueriesNeeded => documentCalls = <<>>
  /\ MissingComponents # {} =>
       /\ documentCalls = <<>>
       /\ createPc \in {"findFolderByPath", "files.list", "thrown"}
       /\ Len(listQueries) = QueriesNeeded => createPc = "thrown"
  /\ createError = "Folder not found" =>
       /\ createPc = "thrown"
       /\ MissingComponents # {}
       /\ Len(listQueries) = QueriesNeeded
  /\ documentCalls # <<>> => createOptions.folderId = <<Components>>
  /\ \A k \in 1..Len(documentCalls) :
       documentCalls[k].kind = "files.update" =>
         documentCalls[k].folder = <<Components>>

\* a path of two names, the first of them missing: one query, Folder not
\* found, no document
C28_Witness ==
  /\ Len(Components) = 2
  /\ MissingComponents = {1, 2}
  /\ Len(listQueries) = 1
  /\ createPc = "thrown"
  /\ createError = "Folder not found"
  /\ documentCalls = <<>>
====
